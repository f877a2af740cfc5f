----------------------------- MODULE TokenCache -----------------------------
(***************************************************************************)
(* ClientCredentialTokenProvider.get_token (service_auth.py): the service  *)
(* tokens the chatbot presents to the other services, cached per grant.    *)
(*                                                                         *)
(* The chat server handles each request in a thread of its own and the     *)
(* threads share one provider.  A call reads the clock BEFORE it takes the *)
(* lock and never again, and a call that has to fetch keeps the lock until *)
(* the token endpoint has answered, so a call may decide and may record an *)
(* expiry with a reading of the clock that is old by then.                 *)
(***************************************************************************)
EXTENDS Integers

CONSTANTS
  Threads,     \* threads of the chat server
  Grants,      \* the (audience, scope) pairs they ask for
  Lifetimes,   \* the lifetimes the endpoint gives its tokens
  Margin,      \* a cached token is not used for its last Margin ticks: 15 s
  None,        \* nothing cached, no thread, no token
  MaxCalls,    \* bound on the calls of a thread
  MaxTime      \* bound on the clock

ASSUME TokenCacheAssumption ==
  /\ Lifetimes \subseteq Nat
  /\ Margin \in Nat /\ MaxCalls \in Nat /\ MaxTime \in Nat
  /\ None \notin Threads
  /\ None \notin [grant: Grants, lifetime: Lifetimes, expiry: Nat]
  /\ None \notin [value: [grant: Grants, lifetime: Lifetimes, expiry: Nat],
                  expires_at: Nat]

VARIABLES
  configured,  \* the client secret is set
  clock,       \* time.time()
  lock,        \* the thread that holds _lock between two steps, or None
  phase,       \* where each thread is in get_token
  calls,       \* calls each thread has made
  grant,       \* cache_key of each thread's call
  now,         \* now of each thread's call
  minted,      \* the token the endpoint has minted for a thread's fetch
  result,      \* what each thread's last call returned
  cache,       \* _cache
  stored       \* every refresh ever put into the cache, for the properties

vars == <<configured, clock, lock, phase, calls, grant, now, minted, result,
          cache, stored>>

call == <<calls, grant, now>>

(* A token with what its claims say of it: whom it is for and how long.    *)
Token == [grant: Grants, lifetime: Lifetimes, expiry: Nat]

CachedToken == [value: Token, expires_at: Nat]

Phases == {"idle", "waiting", "fetching", "returned", "raised"}

(* Bug: the scope is not part of the key. *)
BugCacheKey(g) == CHOOSE h \in Grants : h.audience = g.audience

CacheKey(g) == g

Init ==
  /\ configured \in BOOLEAN
  /\ clock = 0
  /\ lock = None
  /\ phase = [t \in Threads |-> "idle"]
  /\ calls = [t \in Threads |-> 0]
  /\ grant \in [Threads -> Grants]
  /\ now = [t \in Threads |-> 0]
  /\ minted = [t \in Threads |-> None]
  /\ result = [t \in Threads |-> None]
  /\ cache = [g \in Grants |-> None]
  /\ stored = {}

----------------------------------------------------------------------------

(* A thread enters get_token: the clock is read, the lock is still to come.*)
Call(t, g) ==
  /\ phase[t] \in {"idle", "returned", "raised"}
  /\ calls[t] < MaxCalls
  /\ phase' = [phase EXCEPT ![t] = "waiting"]
  /\ calls' = [calls EXCEPT ![t] = @ + 1]
  /\ grant' = [grant EXCEPT ![t] = g]
  /\ now' = [now EXCEPT ![t] = clock]
  /\ result' = [result EXCEPT ![t] = None]
  /\ UNCHANGED <<configured, clock, lock, minted, cache, stored>>

(* Bug: the token is used to its last second. *)
BugUsable(t) ==
  LET cached == cache[CacheKey(grant[t])]
  IN cached # None /\ cached.expires_at > now[t]

Usable(t) ==
  LET cached == cache[CacheKey(grant[t])]
  IN cached # None /\ cached.expires_at - Margin > now[t]

(* The call has the lock and the cached token will do. *)
UseCached(t) ==
  /\ phase[t] = "waiting"
  /\ lock = None
  /\ Usable(t)
  /\ result' = [result EXCEPT ![t] = cache[CacheKey(grant[t])].value]
  /\ phase' = [phase EXCEPT ![t] = "returned"]
  /\ UNCHANGED <<configured, clock, lock, call, minted, cache, stored>>

(* The call has the lock, no token and no secret. *)
RefuseUnconfigured(t) ==
  /\ phase[t] = "waiting"
  /\ lock = None
  /\ ~Usable(t)
  /\ ~configured
  /\ phase' = [phase EXCEPT ![t] = "raised"]
  /\ UNCHANGED <<configured, clock, lock, call, minted, result, cache, stored>>

(* Bug: the lock is not held during the request. *)
BugBeginFetch(t) ==
  /\ phase[t] = "waiting"
  /\ lock = None
  /\ ~Usable(t)
  /\ configured
  /\ phase' = [phase EXCEPT ![t] = "fetching"]
  /\ UNCHANGED <<configured, clock, lock, call, minted, result, cache, stored>>

(* The call has the lock, keeps it and asks the endpoint for a token. *)
BeginFetch(t) ==
  /\ phase[t] = "waiting"
  /\ lock = None
  /\ ~Usable(t)
  /\ configured
  /\ lock' = t
  /\ phase' = [phase EXCEPT ![t] = "fetching"]
  /\ UNCHANGED <<configured, clock, call, minted, result, cache, stored>>

(* The endpoint mints a token, whose life begins here and not at now. *)
Mint(t) ==
  /\ phase[t] = "fetching"
  /\ minted[t] = None
  /\ \E lifetime \in Lifetimes :
       minted' = [minted EXCEPT ![t] =
         [grant |-> grant[t], lifetime |-> lifetime, expiry |-> clock + lifetime]]
  /\ UNCHANGED <<configured, clock, lock, phase, call, result, cache, stored>>

(* expires_in is counted from the reading the call began with. *)
ExpiresAt(t) == now[t] + minted[t].lifetime

EndFetch(t, outcome) ==
  /\ phase' = [phase EXCEPT ![t] = outcome]
  /\ minted' = [minted EXCEPT ![t] = None]
  /\ lock' = None
  /\ UNCHANGED <<configured, clock, call>>

(* The answer is a token: it is cached and returned.  An answer that names *)
(* no lifetime is taken for one of 300 seconds, so of such an answer the   *)
(* lifetime here is what the code assumes: that the endpoint's token lives *)
(* as long is an assumption.                                               *)
FetchReturns(t) ==
  /\ phase[t] = "fetching"
  /\ minted[t] # None
  /\ cache' = [cache EXCEPT ![CacheKey(grant[t])] =
                 [value |-> minted[t], expires_at |-> ExpiresAt(t)]]
  /\ stored' = stored \cup
       {[by |-> t, call |-> calls[t], grant |-> grant[t], now |-> now[t],
         lifetime |-> minted[t].lifetime]}
  /\ result' = [result EXCEPT ![t] = minted[t]]
  /\ EndFetch(t, "returned")

(* Bug: the exception leaves the lock taken. *)
BugFetchFails(t) ==
  /\ phase[t] = "fetching"
  /\ phase' = [phase EXCEPT ![t] = "raised"]
  /\ minted' = [minted EXCEPT ![t] = None]
  /\ UNCHANGED <<configured, clock, lock, call, result, cache, stored>>

(* The request fails, its answer is lost, or it is not a token. *)
FetchFails(t) ==
  /\ phase[t] = "fetching"
  /\ UNCHANGED <<result, cache, stored>>
  /\ EndFetch(t, "raised")

Tick ==
  /\ clock < MaxTime
  /\ clock' = clock + 1
  /\ UNCHANGED <<configured, lock, phase, call, minted, result, cache, stored>>

GetToken(t) ==
  UseCached(t) \/ RefuseUnconfigured(t) \/ BeginFetch(t) \/ FetchReturns(t) \/ FetchFails(t)

Next ==
  \/ \E t \in Threads : GetToken(t) \/ Mint(t) \/ \E g \in Grants : Call(t, g)
  \/ Tick

Spec == Init /\ [][Next]_vars

(* A thread that can go on does; the socket timeout ends every fetch. *)
FairSpec == Spec /\ \A t \in Threads : WF_vars(GetToken(t))

----------------------------------------------------------------------------

(* Variables keep the shapes the code gives them. *)
TypeOK ==
  /\ configured \in BOOLEAN
  /\ clock \in Nat
  /\ lock \in Threads \cup {None}
  /\ phase \in [Threads -> Phases]
  /\ calls \in [Threads -> Nat]
  /\ grant \in [Threads -> Grants]
  /\ now \in [Threads -> Nat]
  /\ minted \in [Threads -> Token \cup {None}]
  /\ result \in [Threads -> Token \cup {None}]
  /\ cache \in [Grants -> CachedToken \cup {None}]
  /\ stored \subseteq [by: Threads, call: Nat, grant: Grants, now: Nat, lifetime: Lifetimes]

(* The cache never believes a token to live longer than it does, although  *)
(* the expiry is computed from another clock reading than the token's.     *)
CacheIsConservative ==
  \A g \in Grants : cache[g] # None => cache[g].expires_at <= cache[g].value.expiry

(* get_token returns a token for exactly the audience and scope asked for, *)
(* whoever fetched it.                                                     *)
TokensMatchTheirGrant ==
  \A t \in Threads : result[t] # None => result[t].grant = grant[t]

(* A returned token outlives the call's start by more than Margin, however *)
(* old it is and whoever fetched it: a call that waits for the lock for no *)
(* longer than Margin never returns an expired token.  Tokens the endpoint *)
(* mints with a shorter life than that are the exception.                  *)
TokensOutliveTheMargin ==
  \A t \in Threads :
    result[t] # None /\ result[t].lifetime > Margin =>
      result[t].expiry > now[t] + Margin

(* However many threads call at once, the token of a grant is not fetched  *)
(* again before the one fetched last comes within Margin of its recorded   *)
(* expiry: calls that waited while another call fetched use what it got.   *)
(* With lifetimes below Margin a call with an old reading of the clock may *)
(* fetch between two others.                                               *)
RefreshesAreSpaced ==
  \A p, q \in stored :
    p.grant = q.grant /\ p # q /\ (\A lifetime \in Lifetimes : lifetime >= Margin) =>
      \/ p.now + p.lifetime - Margin <= q.now
      \/ q.now + q.lifetime - Margin <= p.now

(* A refresh never replaces a cached token by one with an earlier expiry,  *)
(* in whatever order threads read the clock and had the lock.              *)
ExpiryMovesForward ==
  [][\A g \in Grants :
       cache[g] # None /\ cache'[g].value.lifetime >= Margin =>
         cache'[g].expires_at >= cache[g].expires_at]_vars

(* Every call of get_token returns or raises: the lock is always released. *)
EveryCallEnds ==
  \A t \in Threads : phase[t] = "waiting" ~> phase[t] \in {"returned", "raised"}
=============================================================================
