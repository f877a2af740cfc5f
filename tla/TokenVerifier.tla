---------------------------- MODULE TokenVerifier ----------------------------
(***************************************************************************)
(* JwksServiceTokenVerifier.verify (service_auth.py) on the threads of the *)
(* chat server: the key set of the issuer, which rotates, the copy that    *)
(* PyJWKClient keeps of it for "lifespan" seconds, fetches that fail or    *)
(* answer late, and the claims of the token.                               *)
(***************************************************************************)
EXTENDS Integers, FiniteSets

CONSTANTS
  Handlers, Keys, Tokens,
  Scope, Caller,  \* the scope and the caller of from_env
  Lifespan,       \* seconds a key set is kept
  FetchTime,      \* seconds after which a fetch has timed out
  Horizon,        \* bound on the clock
  MaxRotations    \* bound on the changes of the key set

(* "signer" is the key a token is signed with, "kid" the one it names, and *)
(* "standard" stands for issuer, audience and the claims it must have.     *)
ASSUME VerifierAssumption ==
  /\ {Lifespan, FetchTime, Horizon, MaxRotations} \subseteq Nat
  /\ Tokens # {}
  /\ \A t \in Tokens : t.standard \in BOOLEAN /\ t.exp \in Nat

VARIABLES
  time,        \* seconds
  published,   \* the issuer's key set, never empty
  withdrawn,   \* when a key was last taken off it
  rotations,
  jwkSet,      \* the key set of PyJWKClient; "at" is when it was put
  pc,          \* "idle", "lookup", "fetching" or "refreshing"
  token,       \* the token each thread verifies
  began,       \* when its last fetch began
  reply,       \* the key set on its way to a thread
  unsteady,    \* the key of its token was not published all along, or a fetch failed
  verdict      \* of its last call

verifier ==
  <<time, published, withdrawn, rotations, jwkSet, pc, token, began, reply, unsteady, verdict>>

issuer == <<published, withdrawn, rotations>>

Empty == [keys |-> {}, at |-> -1]

VerifierInit ==
  /\ time = 0
  /\ published \in (SUBSET Keys) \ {{}}
  /\ withdrawn = [k \in Keys |-> -1]
  /\ rotations = 0
  /\ jwkSet = Empty
  /\ pc = [t \in Handlers |-> "idle"]
  /\ token \in [Handlers -> {CHOOSE k \in Tokens : TRUE}]
  /\ began = [t \in Handlers |-> 0]
  /\ reply = [t \in Handlers |-> {}]
  /\ unsteady = [t \in Handlers |-> FALSE]
  /\ verdict = [t \in Handlers |-> "none"]

(* No fetch lasts longer than FetchTime, nothing else takes time.          *)
SecondPasses ==
  /\ time < Horizon
  /\ \A t \in Handlers : pc[t] \in {"fetching", "refreshing"} => time < began[t] + FetchTime
  /\ \A t \in Handlers : pc[t] # "lookup"
  /\ time' = time + 1
  /\ UNCHANGED <<issuer, jwkSet, pc, token, began, reply, unsteady, verdict>>

Rotate ==
  /\ rotations < MaxRotations
  /\ rotations' = rotations + 1
  /\ published' \in (SUBSET Keys) \ {{}, published}
  /\ withdrawn' = [k \in Keys |-> IF k \in published \ published' THEN time ELSE withdrawn[k]]
  /\ unsteady' = [t \in Handlers |-> unsteady[t] \/ token[t].kid \notin published']
  /\ UNCHANGED <<time, jwkSet, pc, token, began, reply, verdict>>

Verify(t) ==
  /\ pc[t] = "idle"
  /\ \E k \in Tokens :
       /\ token' = [token EXCEPT ![t] = k]
       /\ unsteady' = [unsteady EXCEPT ![t] = k.kid \notin published]
  /\ pc' = [pc EXCEPT ![t] = "lookup"]
  /\ verdict' = [verdict EXCEPT ![t] = "none"]
  /\ UNCHANGED <<time, issuer, jwkSet, began, reply>>

----------------------------------------------------------------------------
(* Bug: the claim is split at spaces only, a list of scopes is not seen.   *)
BugScopes(k) == IF k.scopeForm = "text" THEN k.scopes ELSE {}

(* _scopes: a list or a text. *)
Scopes(k) == k.scopes

(* jwt.decode and the claims verify reads itself. *)
Acceptable(k) ==
  /\ k.signer = k.kid
  /\ k.standard /\ k.exp > time
  /\ k.tokenUse = "service"
  /\ k.sub = Caller /\ k.clientId = Caller
  /\ Scope \in Scopes(k)

End(t, v) ==
  /\ pc' = [pc EXCEPT ![t] = "idle"]
  /\ verdict' = [verdict EXCEPT ![t] = v]
  /\ reply' = [reply EXCEPT ![t] = {}]
  /\ began' = [began EXCEPT ![t] = 0]

Decide(t) == End(t, IF Acceptable(token[t]) THEN "accepted" ELSE "refused")

Fetch(t, stage) ==
  /\ pc' = [pc EXCEPT ![t] = stage]
  /\ began' = [began EXCEPT ![t] = time]
  /\ reply' = [reply EXCEPT ![t] = {}]
  /\ UNCHANGED verdict

(* Bug: lifespan is -1, which PyJWKClient takes for never. *)
BugFresh == jwkSet # Empty

Fresh == jwkSet # Empty /\ time <= jwkSet.at + Lifespan

(* get_signing_key: the kept key set, or a fetch, and a fetch too when the *)
(* key named is not in it.                                                 *)
Lookup(t) ==
  /\ pc[t] = "lookup"
  /\ \/ ~Fresh /\ Fetch(t, "fetching")
     \/ Fresh /\ token[t].kid \notin jwkSet.keys /\ Fetch(t, "refreshing")
     \/ Fresh /\ token[t].kid \in jwkSet.keys /\ Decide(t)
  /\ UNCHANGED <<time, issuer, jwkSet, token, unsteady>>

(* The issuer answers; the answer may arrive later. *)
Respond(t) ==
  /\ pc[t] \in {"fetching", "refreshing"}
  /\ reply[t] = {}
  /\ reply' = [reply EXCEPT ![t] = published]
  /\ UNCHANGED <<time, issuer, jwkSet, pc, token, began, unsteady, verdict>>

(* A key set is put as new when it arrives.  One fetched because nothing   *)
(* was kept is fetched again when it does not have the key.                *)
Receive(t) ==
  /\ reply[t] # {}
  /\ jwkSet' = [keys |-> reply[t], at |-> time]
  /\ \/ token[t].kid \in reply[t] /\ Decide(t)
     \/ /\ token[t].kid \notin reply[t]
        /\ \/ pc[t] = "fetching" /\ Fetch(t, "refreshing")
           \/ pc[t] = "refreshing" /\ End(t, "refused")
  /\ UNCHANGED <<time, issuer, token, unsteady>>

(* A fetch that fails drops the key set that was kept.  PyJWKClient turns  *)
(* a connection error into a PyJWTError, which verify refuses; a body that *)
(* is reset or no JSON leaves verify as the exception it is.               *)
FetchRaises(t) ==
  /\ pc[t] \in {"fetching", "refreshing"}
  /\ jwkSet' = Empty
  /\ unsteady' = [unsteady EXCEPT ![t] = TRUE]
  /\ \E v \in {"refused", "raised"} : End(t, v)
  /\ UNCHANGED <<time, issuer, token>>

VerifierNext ==
  \/ SecondPasses \/ Rotate
  \/ \E t \in Handlers : Verify(t) \/ Lookup(t) \/ Respond(t) \/ Receive(t) \/ FetchRaises(t)

VerifierSpec == VerifierInit /\ [][VerifierNext]_verifier

----------------------------------------------------------------------------
(* Variables keep the shapes the code gives them. *)
VerifierTypeOK ==
  /\ time \in Nat
  /\ published \subseteq Keys
  /\ withdrawn \in [Keys -> Int]
  /\ jwkSet \in [keys: SUBSET Keys, at: Int]
  /\ pc \in [Handlers -> {"idle", "lookup", "fetching", "refreshing"}]
  /\ token \in [Handlers -> Tokens]
  /\ began \in [Handlers -> Nat]
  /\ reply \in [Handlers -> SUBSET Keys]
  /\ unsteady \in [Handlers -> BOOLEAN]
  /\ verdict \in [Handlers -> {"none", "accepted", "refused", "raised"}]

Accepts(t) == verdict[t] # "accepted" /\ verdict'[t] = "accepted"

(* A key taken off the issuer's set is honoured for no longer than the     *)
(* lifespan and one fetch: no order of late answers and refreshes of other *)
(* threads keeps a copy of the old set alive beyond that.                  *)
WithdrawnKeysExpire ==
  [][\A t \in Handlers :
       Accepts(t) => \/ token[t].kid \in published
                     \/ time <= withdrawn[token[t].kid] + Lifespan + FetchTime]_verifier

(* A token of the backend is turned away, by a refusal or by an exception, *)
(* only for a cause outside this process: its key was not published all    *)
(* along, a fetch failed, or it is no token of the backend for this        *)
(* service.  In particular a rotation is noticed, however fresh the kept   *)
(* key set is.                                                             *)
GenuineTokensPass ==
  \A t \in Handlers :
    verdict[t] \in {"refused", "raised"} =>
      \/ unsteady[t]
      \/ token[t].exp <= time
      \/ token[t].signer # token[t].kid \/ ~token[t].standard
      \/ token[t].tokenUse # "service" \/ Scope \notin token[t].scopes
      \/ {token[t].sub, token[t].clientId} # {Caller}
=============================================================================
