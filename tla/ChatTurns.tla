------------------------------ MODULE ChatTurns ------------------------------
(***************************************************************************)
(* One chat turn after another through the HTTP runtime: do_POST of        *)
(* chat_runtime/http_server.py, and behind it one of two runtimes, the     *)
(* streaming ProviderChatRuntime or GovernedMemoryChatRuntime, which       *)
(* recalls the user's memory from Bend, answers from it, audits the        *)
(* recall and hands a memory proposal over for review.                     *)
(*                                                                         *)
(* Every request runs in a thread of its own.  A runtime is a generator:   *)
(* it goes on only when the handler has written what it last yielded.      *)
(* Nothing is kept in the chatbot between turns; Bend keeps the memory,    *)
(* the audits and the proposals.  A request may be repeated by its client, *)
(* also while the first one still runs, and a call of a port may fail      *)
(* after it has taken effect.                                              *)
(***************************************************************************)
EXTENDS Integers, Sequences

CONSTANTS
  Attempts,     \* HTTP requests
  Messages,     \* (conversation_id, message_id) pairs
  Principals,   \* validated (tenant, user) pairs
  Memories,     \* memory records of Bend
  Candidates,   \* memory proposals a builder can come up with
  None,         \* no candidate
  KeyOf,        \* the idempotency key of each message
  MaxChunks     \* bound on the chunks of a streamed answer

ASSUME ChatTurnsAssumption == None \notin Candidates /\ MaxChunks \in Nat

VARIABLES
  runtime,    \* which runtime the server was started with
  turn,       \* the message and the principal of each request
  pc,         \* where the thread of each request is
  context,    \* the memories given to the provider
  cited,      \* the memories the answer cites
  candidate,  \* what build_candidate returned
  chunks,     \* chunks of the provider's stream yielded so far
  outbox,     \* events the runtime has yielded, still to be written
  connected,  \* the client of the request is still there
  seen,       \* what the client has received
  memory,     \* Bend: whose a memory is, and whether it may be recalled
  audits,     \* Bend: the recall audits
  proposals,  \* Bend: the proposals that wait for the user's review
  granted     \* what each request was entitled to at its recall, for properties

vars == <<runtime, turn, pc, context, cited, candidate, chunks, outbox, connected,
          seen, memory, audits, proposals, granted>>

bend == <<memory, audits, proposals>>
recalled == <<context, cited, candidate, granted>>
fixed == <<runtime, turn>>
client == <<connected, seen>>

Turns == [message: Messages, principal: Principals]

(* "declined" is a completed event with no text and a decision code.       *)
Events == {"memory_proposal", "delta", "completed", "declined", "error", "refused"}

Terminal == {"completed", "declined", "error", "refused"}

Stages == {"idle", "streaming", "recalling", "answering", "auditing", "building",
           "proposing", "finishing", "done", "cut", "raised"}

Init ==
  /\ runtime \in {"provider", "memory"}
  /\ turn \in [Attempts -> Turns]
  /\ \A a, b \in Attempts :
       turn[a].message = turn[b].message => turn[a].principal = turn[b].principal
  /\ pc = [a \in Attempts |-> "idle"]
  /\ context = [a \in Attempts |-> {}]
  /\ cited = [a \in Attempts |-> {}]
  /\ candidate = [a \in Attempts |-> None]
  /\ chunks = [a \in Attempts |-> 0]
  /\ outbox = [a \in Attempts |-> <<>>]
  /\ connected = [a \in Attempts |-> TRUE]
  /\ seen = [a \in Attempts |-> <<>>]
  /\ memory \in [Memories -> [owner: Principals, active: BOOLEAN]]
  /\ audits = {}
  /\ proposals = {}
  /\ granted = [a \in Attempts |-> {}]

----------------------------------------------------------------------------
(* The handler. *)

(* A wrong route, credential or size, or a body that is no turn: none is   *)
(* run.                                                                    *)
Refuse(a) ==
  /\ pc[a] = "idle"
  /\ pc' = [pc EXCEPT ![a] = "finishing"]
  /\ outbox' = [outbox EXCEPT ![a] = <<"refused">>]
  /\ UNCHANGED <<fixed, chunks, recalled, client, bend>>

(* A body that is JSON but no object, a principal that is a text, or a     *)
(* verifier that raises anything but ServiceCredentialError: the exception *)
(* leaves do_POST and the connection is closed without a response.         *)
RequestRaises(a) ==
  /\ pc[a] = "idle"
  /\ pc' = [pc EXCEPT ![a] = "raised"]
  /\ UNCHANGED <<fixed, chunks, recalled, outbox, client, bend>>

Admit(a) ==
  /\ pc[a] = "idle"
  /\ pc' = [pc EXCEPT ![a] = IF runtime = "provider" THEN "streaming" ELSE "recalling"]
  /\ UNCHANGED <<fixed, chunks, recalled, outbox, client, bend>>

(* Bug: an error does not end the loop over the runtime's events. *)
BugYield(a, stage, events) ==
  /\ pc' = [pc EXCEPT ![a] = IF events = <<"error">> THEN @ ELSE stage]
  /\ outbox' = [outbox EXCEPT ![a] = @ \o events]

(* The runtime of a yields events and is at stage when they are written.   *)
Yield(a, stage, events) ==
  /\ pc' = [pc EXCEPT ![a] = stage]
  /\ outbox' = [outbox EXCEPT ![a] = @ \o events]

(* An exception out of the runtime becomes one error event. *)
Raise(a) == Yield(a, "finishing", <<"error">>)

(* Bug: of the last events of a turn only the first is written. *)
BugAfterWrite(a) ==
  /\ outbox' = [outbox EXCEPT ![a] = IF pc[a] = "finishing" THEN <<>> ELSE Tail(@)]
  /\ pc' = [pc EXCEPT ![a] = IF pc[a] = "finishing" THEN "done" ELSE @]

AfterWrite(a) ==
  /\ outbox' = [outbox EXCEPT ![a] = Tail(@)]
  /\ pc' = [pc EXCEPT ![a] =
              IF pc[a] = "finishing" /\ Tail(outbox[a]) = <<>> THEN "done" ELSE @]

Write(a) ==
  /\ outbox[a] # <<>>
  /\ AfterWrite(a)
  /\ seen' = [seen EXCEPT ![a] =
                IF connected[a] THEN Append(@, Head(outbox[a])) ELSE @]
  /\ UNCHANGED <<fixed, chunks, recalled, connected, bend>>

(* BrokenPipeError or ConnectionResetError: the generator is abandoned and *)
(* the response ends without another word.                                 *)
Abandon(a) ==
  /\ pc' = [pc EXCEPT ![a] = "cut"]
  /\ outbox' = [outbox EXCEPT ![a] = <<>>]
  /\ UNCHANGED <<fixed, chunks, recalled, client, bend>>

WriteFails(a) ==
  /\ outbox[a] # <<>>
  /\ ~connected[a]
  /\ Abandon(a)

(* The thread of a runs its runtime up to the next yield. *)
Running(a, stage) == pc[a] = stage /\ outbox[a] = <<>>

(* The handler takes a connection error of the provider, or of the proposal*)
(* builder, for one of its own client's.  Other ports wrap theirs.         *)
PortResets(a) ==
  /\ Running(a, "streaming") \/ Running(a, "building")
  /\ Abandon(a)

----------------------------------------------------------------------------
(* ProviderChatRuntime *)

StreamChunk(a) ==
  /\ Running(a, "streaming")
  /\ chunks[a] < MaxChunks
  /\ chunks' = [chunks EXCEPT ![a] = @ + 1]
  /\ Yield(a, "streaming", <<"delta">>)
  /\ UNCHANGED <<fixed, recalled, client, bend>>

StreamEnds(a) ==
  /\ Running(a, "streaming")
  /\ Yield(a, "finishing", <<"completed">>)
  /\ UNCHANGED <<fixed, chunks, recalled, client, bend>>

StreamFails(a) ==
  /\ Running(a, "streaming")
  /\ Raise(a)
  /\ UNCHANGED <<fixed, chunks, recalled, client, bend>>

----------------------------------------------------------------------------
(* GovernedMemoryChatRuntime.  Until the answer is audited and its proposal*)
(* handed over it yields nothing, so it does not notice a lost client.     *)

(* The answer is denied, lacks context, or its making failed. *)
Decline(a) == Yield(a, "finishing", <<"declined">>)

(* Records Bend may return for a scope; it need not filter them itself.    *)
OfScope(scope) == {r \in Memories : memory[r].owner = scope}

(* list_candidates: the scope Bend derived must be the turn's. *)
ScopeMatches(a, scope) == scope = turn[a].principal

(* Bug: an inactive record is authorized. *)
BugAuthorized(a, scope, records) == {r \in records : scope = turn[a].principal}

(* GovernedRetrievalPolicy.authorize; a record has the scope Bend derived. *)
Authorized(a, scope, records) ==
  {r \in records : scope = turn[a].principal /\ memory[r].active}

(* Recall, authorization, ranking and the context budget: the provider is  *)
(* given some of the authorized records.                                   *)
Recall(a) ==
  /\ Running(a, "recalling")
  /\ \E scope \in Principals : \E records \in SUBSET OfScope(scope) :
       /\ ScopeMatches(a, scope)
       /\ \E bounded \in (SUBSET Authorized(a, scope, records)) \ {{}} :
            context' = [context EXCEPT ![a] = bounded]
       /\ granted' = [granted EXCEPT ![a] =
            {r \in Memories : memory[r].owner = turn[a].principal /\ memory[r].active}]
  /\ pc' = [pc EXCEPT ![a] = "answering"]
  /\ UNCHANGED <<fixed, cited, candidate, chunks, outbox, client, bend>>

(* No usable context, or Bend failed, or answered for another scope. *)
RecallDeclines(a) ==
  /\ Running(a, "recalling")
  /\ Decline(a)
  /\ UNCHANGED <<fixed, chunks, recalled, client, bend>>

(* The provider's claims all cite, and only records of the context. *)
Answer(a) ==
  /\ Running(a, "answering")
  /\ \E ids \in (SUBSET context[a]) \ {{}} : cited' = [cited EXCEPT ![a] = ids]
  /\ pc' = [pc EXCEPT ![a] = "auditing"]
  /\ UNCHANGED <<fixed, context, candidate, granted, chunks, outbox, client, bend>>

AnswerDeclines(a) ==
  /\ Running(a, "answering")
  /\ Decline(a)
  /\ UNCHANGED <<fixed, chunks, recalled, client, bend>>

AuditOf(a) == [by |-> a, cited |-> cited[a]]

Audit(a) ==
  /\ Running(a, "auditing")
  /\ audits' = audits \cup {AuditOf(a)}
  /\ pc' = [pc EXCEPT ![a] = "building"]
  /\ UNCHANGED <<fixed, chunks, recalled, outbox, client, memory, proposals>>

(* Bug: a failed audit does not stop the turn. *)
BugAuditFails(a) ==
  /\ Running(a, "auditing")
  /\ audits' \in {audits, audits \cup {AuditOf(a)}}
  /\ pc' = [pc EXCEPT ![a] = "building"]
  /\ UNCHANGED <<fixed, chunks, recalled, outbox, client, memory, proposals>>

(* The audit's request or only its answer is lost. *)
AuditFails(a) ==
  /\ Running(a, "auditing")
  /\ audits' \in {audits, audits \cup {AuditOf(a)}}
  /\ Raise(a)
  /\ UNCHANGED <<fixed, chunks, recalled, client, memory, proposals>>

Build(a) ==
  /\ Running(a, "building")
  /\ \E c \in Candidates : candidate' = [candidate EXCEPT ![a] = c]
  /\ pc' = [pc EXCEPT ![a] = "proposing"]
  /\ UNCHANGED <<fixed, context, cited, granted, chunks, outbox, client, bend>>

BuildNothing(a) ==
  /\ Running(a, "building")
  /\ Yield(a, "finishing", <<"delta", "completed">>)
  /\ UNCHANGED <<fixed, chunks, recalled, client, bend>>

BuildFails(a) ==
  /\ Running(a, "building")
  /\ Raise(a)
  /\ UNCHANGED <<fixed, chunks, recalled, client, bend>>

(* Bug: every attempt has a key of its own. *)
BugKey(a) == a

(* The idempotency key is a digest of the ids of the conversation and of   *)
(* the message joined by a colon, which an id may contain too: nothing     *)
(* says that two messages have different keys.                             *)
Key(a) == KeyOf[turn[a].message]

ProposalOf(a) == [key |-> Key(a), message |-> turn[a].message, candidate |-> candidate[a]]

(* Bend keeps the first proposal of a key and confirms its repetition.     *)
KeyIsFree(a) == \A p \in proposals : p.key # Key(a)
Acceptable(a) == KeyIsFree(a) \/ ProposalOf(a) \in proposals

Propose(a) ==
  /\ Running(a, "proposing")
  /\ Acceptable(a)
  /\ proposals' = proposals \cup {ProposalOf(a)}
  /\ Yield(a, "finishing", <<"memory_proposal", "delta", "completed">>)
  /\ UNCHANGED <<fixed, chunks, recalled, client, memory, audits>>

(* Bug: a proposal that failed is handed over again, without a limit. *)
BugProposeFails(a) ==
  /\ Running(a, "proposing")
  /\ \/ UNCHANGED proposals
     \/ Acceptable(a) /\ proposals' = proposals \cup {ProposalOf(a)}
  /\ Yield(a, "proposing", <<>>)
  /\ UNCHANGED <<fixed, chunks, recalled, client, memory, audits>>

(* Bend refuses, or the request or only its answer is lost. *)
ProposeFails(a) ==
  /\ Running(a, "proposing")
  /\ \/ UNCHANGED proposals
     \/ Acceptable(a) /\ proposals' = proposals \cup {ProposalOf(a)}
  /\ Raise(a)
  /\ UNCHANGED <<fixed, chunks, recalled, client, memory, audits>>

----------------------------------------------------------------------------
(* The surroundings: clients give up, users withdraw memories. *)

Disconnect(a) ==
  /\ pc[a] \notin {"idle", "done", "cut", "raised"}
  /\ connected[a]
  /\ connected' = [connected EXCEPT ![a] = FALSE]
  /\ UNCHANGED <<fixed, pc, chunks, recalled, outbox, seen, bend>>

Withdraw(r) ==
  /\ memory[r].active
  /\ memory' = [memory EXCEPT ![r].active = FALSE]
  /\ UNCHANGED <<fixed, pc, chunks, recalled, outbox, client, audits, proposals>>

Serve(a) ==
  \/ Write(a) \/ WriteFails(a) \/ PortResets(a)
  \/ StreamChunk(a) \/ StreamEnds(a) \/ StreamFails(a)
  \/ Recall(a) \/ RecallDeclines(a) \/ Answer(a) \/ AnswerDeclines(a)
  \/ Audit(a) \/ AuditFails(a) \/ Build(a) \/ BuildNothing(a) \/ BuildFails(a)
  \/ Propose(a) \/ ProposeFails(a)

Next ==
  \/ \E a \in Attempts :
       Refuse(a) \/ RequestRaises(a) \/ Admit(a) \/ Serve(a) \/ Disconnect(a)
  \/ \E r \in Memories : Withdraw(r)

(* No thread is promised to go on: a write to a client that stays and does *)
(* not read, and a streaming provider, may block for ever.                 *)
Spec == Init /\ [][Next]_vars

----------------------------------------------------------------------------

Got(a, event) == \E k \in DOMAIN seen[a] : seen[a][k] = event

(* Variables keep the shapes the code gives them. *)
TypeOK ==
  /\ runtime \in {"provider", "memory"}
  /\ turn \in [Attempts -> Turns]
  /\ pc \in [Attempts -> Stages]
  /\ context \in [Attempts -> SUBSET Memories]
  /\ cited \in [Attempts -> SUBSET Memories]
  /\ candidate \in [Attempts -> Candidates \cup {None}]
  /\ chunks \in [Attempts -> Nat]
  /\ outbox \in [Attempts -> Seq(Events)]
  /\ connected \in [Attempts -> BOOLEAN]
  /\ seen \in [Attempts -> Seq(Events)]
  /\ memory \in [Memories -> [owner: Principals, active: BOOLEAN]]
  /\ audits \subseteq [by: Attempts, cited: SUBSET Memories]
  /\ proposals \subseteq [key: {KeyOf[m] : m \in Messages}, message: Messages, candidate: Candidates]
  /\ granted \in [Attempts -> SUBSET Memories]

(* A client of the memory runtime has no word of an answer before Bend has *)
(* the audit of exactly what the answer cites and, when the turn produced  *)
(* a candidate, that candidate as the message's proposal: "A recall-backed *)
(* answer is not completed until its recall audit and optional proposal    *)
(* handoff succeed" (sst-governed-user-memory-chat.yaml).                  *)
AnswersAreAccountedFor ==
  \A a \in Attempts : runtime = "memory" /\ (Got(a, "delta") \/ Got(a, "completed")) =>
    /\ AuditOf(a) \in audits
    /\ candidate[a] # None => ProposalOf(a) \in proposals

(* However often a message is sent, and whatever was lost on the way, it   *)
(* leaves at most one proposal for its user to review.                     *)
OneProposalPerMessage ==
  \A p, q \in proposals : p.message = q.message => p = q

(* What is audited as used was, when it was recalled, an active memory of  *)
(* the turn's own principal, although Bend's answer may be for another     *)
(* scope or hold withdrawn records, and the provider may cite anything.    *)
AuditsCiteGrantedMemory ==
  \A r \in audits : r.cited # {} /\ r.cited \subseteq granted[r.by]

(* Nothing follows an event that ends a turn, and an error that ends a     *)
(* stream is not followed by "completed" (http-chat-runtime.md).           *)
TerminalIsLast ==
  \A a \in Attempts : \A k \in DOMAIN seen[a] :
    seen[a][k] \in Terminal => k = Len(seen[a])

(* A client that stays is told how its turn ended, once it was admitted or *)
(* refused: "Si el provider falla despues de emitir deltas, el adapter HTTP *)
(* termina con un registro `error`" (http-chat-runtime.md).                *)
StayingClientsAreToldTheEnd ==
  \A a \in Attempts : connected[a] /\ pc[a] \in {"done", "cut"} =>
    \E event \in Terminal : Got(a, event)

(* What a turn can still do: the stages and the words ahead of it and the  *)
(* chunks its stream may bring, each of them with its delta.               *)
StepsFrom == [s \in Stages |->
  CASE s \in {"done", "cut", "raised"} -> 0
    [] s = "finishing" -> 1
    [] s = "streaming" -> 3
    [] s = "proposing" -> 5
    [] s = "building" -> 6
    [] s = "auditing" -> 7
    [] s = "answering" -> 8
    [] s = "recalling" -> 9
    [] s = "idle" -> 10]

Remaining(a) == StepsFrom[pc[a]] + Len(outbox[a]) + 2 * (MaxChunks - chunks[a])

(* No turn works in circles: each step of its thread, failures included,   *)
(* brings it nearer to its end, nothing is tried twice, and nothing that   *)
(* other turns, clients or users do sends it back.  That its thread goes   *)
(* on, and that a stream has an end, is not claimed.                       *)
TurnsRunOut ==
  [][\A a \in Attempts :
       /\ Remaining(a)' <= Remaining(a)
       /\ Refuse(a) \/ RequestRaises(a) \/ Admit(a) \/ Serve(a) =>
            Remaining(a)' < Remaining(a)]_vars

(* A request that is refused and a turn that runs to its end have told     *)
(* their client how, if the client stayed.  A client that stays is left    *)
(* without a word in two ways only: by RequestRaises before a turn began,  *)
(* and by PortResets, which takes a port's connection error for its own.   *)
FinishedTurnsAreTold ==
  \A a \in Attempts : connected[a] /\ pc[a] = "done" =>
    \E event \in Terminal : Got(a, event)

----------------------------------------------------------------------------
(* The retrieval of one turn, as Grounding has it.  The reader may see the *)
(* memories of the turn's principal.                                       *)
RetrievalOf(a) ==
  IF pc[a] \in {"idle", "streaming", "recalling"} THEN "asked"
  ELSE IF pc[a] = "answering" THEN "consulting"
  ELSE IF cited[a] # {} THEN "answered"
  ELSE "refused"

OwnMemories(a) == {r \in Memories : memory[r].owner = turn[a].principal}

TurnRetrieval(a) == INSTANCE Grounding WITH
  Material <- Memories,
  phase <- RetrievalOf(a),
  entitled <- OwnMemories(a),
  context <- context[a],
  cited <- cited[a]

(* Every turn keeps the promise of the retrieval pipeline it is built on,  *)
(* whatever other turns do and whatever is withdrawn meanwhile: one        *)
(* consultation at most, of the principal's own memories, and an answer    *)
(* from what was consulted.                                                *)
EveryTurnImplementsGrounding ==
  /\ \A a \in Attempts : TurnRetrieval(a)!Init
  /\ [][\A a \in Attempts : [TurnRetrieval(a)!Next]_(TurnRetrieval(a)!vars)]_vars
=============================================================================
