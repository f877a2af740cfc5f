------------------------- MODULE ServiceAuthProofs --------------------------
(***************************************************************************)
(* The safety properties of the two halves of service_auth.py, TokenCache  *)
(* and TokenVerifier, which share nothing but the file.                    *)
(*                                                                         *)
(* Those of TokenCache hold for every number of threads, every             *)
(* set of grants and lifetimes, and every margin.                          *)
(*                                                                         *)
(* None of them is inductive.  What carries them is that a call's reading  *)
(* of the clock is never ahead of the clock, so never later than the       *)
(* minting of its token, and that the lock keeps the cache as it was when  *)
(* a call decided to fetch until that call stores what it fetched.         *)
(***************************************************************************)
EXTENDS TokenCache, TokenVerifier, TLAPS

(* One thread at a time is fetching: the one that holds the lock. *)
LockIsHeld == \A t \in Threads : phase[t] = "fetching" <=> lock = t

(* A reading of the clock is a past one. *)
ReadingsArePast == \A t \in Threads : now[t] <= clock

(* A token on its way is its caller's, and was minted after the reading. *)
MintedIsSound ==
  \A t \in Threads : minted[t] # None =>
    /\ phase[t] = "fetching"
    /\ minted[t].grant = grant[t]
    /\ minted[t].expiry >= now[t] + minted[t].lifetime

(* What made a call fetch is still the case. *)
FetchIsNeeded ==
  \A t \in Threads : phase[t] = "fetching" => ~Usable(t)

CacheIsSound ==
  \A g \in Grants : cache[g] # None =>
    /\ cache[g].value.grant = g
    /\ cache[g].expires_at <= cache[g].value.expiry

ResultIsSound ==
  \A t \in Threads : result[t] # None =>
    /\ result[t].grant = grant[t]
    /\ result[t].lifetime > Margin => result[t].expiry > now[t] + Margin

LongLived == \A lifetime \in Lifetimes : lifetime >= Margin

(* The cached token of a grant is the one that was to expire last. *)
CacheIsLatest ==
  LongLived =>
    \A p \in stored :
      cache[p.grant] # None /\ p.now + p.lifetime <= cache[p.grant].expires_at

IInv ==
  /\ TypeOK
  /\ LockIsHeld
  /\ ReadingsArePast
  /\ MintedIsSound
  /\ FetchIsNeeded
  /\ CacheIsSound
  /\ ResultIsSound
  /\ CacheIsLatest
  /\ RefreshesAreSpaced

----------------------------------------------------------------------------

LEMMA InitIInv == Init => IInv
BY TokenCacheAssumption
   DEF Init, IInv, TypeOK, Phases, LockIsHeld, ReadingsArePast, MintedIsSound, FetchIsNeeded,
       CacheIsSound, ResultIsSound, CacheIsLatest, RefreshesAreSpaced

(* Entering get_token changes nothing but the caller's own call. *)
LEMMA CallIInv ==
  ASSUME IInv, NEW t \in Threads, NEW g \in Grants, Call(t, g)
  PROVE  IInv'
<1>1. TypeOK'
  BY DEF IInv, TypeOK, Call, Phases
<1>2. LockIsHeld' /\ ReadingsArePast'
  BY DEF IInv, TypeOK, Call, Phases, LockIsHeld, ReadingsArePast
<1>3. MintedIsSound' /\ FetchIsNeeded' /\ ResultIsSound'
  BY DEF IInv, TypeOK, Call, Phases, LockIsHeld, MintedIsSound, FetchIsNeeded,
     ResultIsSound, Usable, CacheKey
<1>4. CacheIsSound' /\ CacheIsLatest' /\ RefreshesAreSpaced'
  BY DEF IInv, Call, CacheIsSound, CacheIsLatest, RefreshesAreSpaced
<1> QED BY <1>1, <1>2, <1>3, <1>4 DEF IInv

LEMMA UseCachedIInv ==
  ASSUME IInv, NEW t \in Threads, UseCached(t)
  PROVE  IInv'
<1> DEFINE cached == cache[grant[t]]
<1>0. /\ grant[t] \in Grants /\ cached \in CachedToken /\ cached # None
      /\ cached.expires_at - Margin > now[t]
      /\ result' = [result EXCEPT ![t] = cached.value]
      /\ cached.value \in Token
  BY DEF IInv, TypeOK, UseCached, Usable, CacheKey, CachedToken
<1>1. TypeOK'
  BY <1>0 DEF IInv, TypeOK, UseCached, Phases, call
<1>2. LockIsHeld' /\ ReadingsArePast'
  BY TokenCacheAssumption
     DEF IInv, TypeOK, UseCached, Phases, call, LockIsHeld, ReadingsArePast
<1>3. MintedIsSound' /\ FetchIsNeeded'
  BY DEF IInv, TypeOK, UseCached, Phases, call, MintedIsSound, FetchIsNeeded, Usable, CacheKey
<1>4. ResultIsSound'
  <2>1. cached.value.grant = grant[t] /\ cached.value.expiry > now[t] + Margin
    BY <1>0, TokenCacheAssumption DEF IInv, TypeOK, CacheIsSound, CachedToken, Token
  <2> QED BY <1>0, <2>1 DEF IInv, TypeOK, UseCached, call, ResultIsSound
<1>5. CacheIsSound' /\ CacheIsLatest' /\ RefreshesAreSpaced'
  BY DEF IInv, UseCached, CacheIsSound, CacheIsLatest, RefreshesAreSpaced
<1> QED BY <1>1, <1>2, <1>3, <1>4, <1>5 DEF IInv

LEMMA RefuseIInv ==
  ASSUME IInv, NEW t \in Threads, RefuseUnconfigured(t)
  PROVE  IInv'
<1>1. TypeOK' /\ LockIsHeld' /\ ReadingsArePast'
  BY TokenCacheAssumption
     DEF IInv, TypeOK, RefuseUnconfigured, Phases, call, LockIsHeld, ReadingsArePast
<1>2. MintedIsSound' /\ FetchIsNeeded' /\ ResultIsSound'
  BY DEF IInv, TypeOK, RefuseUnconfigured, Phases, call, MintedIsSound, FetchIsNeeded,
     ResultIsSound, Usable, CacheKey
<1>3. CacheIsSound' /\ CacheIsLatest' /\ RefreshesAreSpaced'
  BY DEF IInv, RefuseUnconfigured, CacheIsSound, CacheIsLatest, RefreshesAreSpaced
<1> QED BY <1>1, <1>2, <1>3 DEF IInv

LEMMA BeginFetchIInv ==
  ASSUME IInv, NEW t \in Threads, BeginFetch(t)
  PROVE  IInv'
<1>1. TypeOK' /\ LockIsHeld' /\ ReadingsArePast'
  BY TokenCacheAssumption
     DEF IInv, TypeOK, BeginFetch, Phases, call, LockIsHeld, ReadingsArePast
<1>2. MintedIsSound' /\ FetchIsNeeded' /\ ResultIsSound'
  BY DEF IInv, TypeOK, BeginFetch, Phases, call, MintedIsSound, FetchIsNeeded,
     ResultIsSound, Usable, CacheKey
<1>3. CacheIsSound' /\ CacheIsLatest' /\ RefreshesAreSpaced'
  BY DEF IInv, BeginFetch, CacheIsSound, CacheIsLatest, RefreshesAreSpaced
<1> QED BY <1>1, <1>2, <1>3 DEF IInv

(* The token's life begins after the reading its expiry is computed from. *)
LEMMA MintIInv ==
  ASSUME IInv, NEW t \in Threads, Mint(t)
  PROVE  IInv'
<1>0. PICK lifetime \in Lifetimes :
        minted' = [minted EXCEPT ![t] =
          [grant |-> grant[t], lifetime |-> lifetime, expiry |-> clock + lifetime]]
  BY DEF Mint
<1>1. TypeOK'
  BY <1>0, TokenCacheAssumption DEF IInv, TypeOK, Mint, Phases, call, Token
<1>2. MintedIsSound'
  BY <1>0, TokenCacheAssumption
     DEF IInv, TypeOK, Mint, call, MintedIsSound, ReadingsArePast
<1>3. LockIsHeld' /\ ReadingsArePast' /\ FetchIsNeeded' /\ ResultIsSound'
  BY DEF IInv, TypeOK, Mint, call, LockIsHeld, ReadingsArePast, FetchIsNeeded,
     ResultIsSound, Usable, CacheKey
<1>4. CacheIsSound' /\ CacheIsLatest' /\ RefreshesAreSpaced'
  BY DEF IInv, Mint, CacheIsSound, CacheIsLatest, RefreshesAreSpaced
<1> QED BY <1>1, <1>2, <1>3, <1>4 DEF IInv

(* What a fetch stores expires no earlier than what it replaces, and not   *)
(* after the token does.                                                   *)
LEMMA StoredExpiry ==
  ASSUME IInv, NEW t \in Threads, FetchReturns(t)
  PROVE  /\ grant[t] \in Grants /\ minted[t] \in Token
         /\ minted[t].grant = grant[t]
         /\ ExpiresAt(t) \in Nat /\ ExpiresAt(t) <= minted[t].expiry
         /\ cache' = [cache EXCEPT ![grant[t]] =
                        [value |-> minted[t], expires_at |-> ExpiresAt(t)]]
         /\ cache[grant[t]] # None => cache[grant[t]].expires_at - Margin <= now[t]
<1>1. grant[t] \in Grants /\ minted[t] \in Token /\ now[t] \in Nat
  BY DEF IInv, TypeOK, FetchReturns
<1>2. minted[t].grant = grant[t] /\ minted[t].expiry >= now[t] + minted[t].lifetime
  BY DEF IInv, MintedIsSound, FetchReturns
<1>3. minted[t].lifetime \in Nat /\ minted[t].expiry \in Nat
  BY <1>1, TokenCacheAssumption DEF Token
<1>4. cache[grant[t]] # None => cache[grant[t]].expires_at - Margin <= now[t]
  BY <1>1, TokenCacheAssumption
     DEF IInv, TypeOK, FetchIsNeeded, FetchReturns, Usable, CacheKey, CachedToken
<1> QED BY <1>1, <1>2, <1>3, <1>4 DEF ExpiresAt, FetchReturns, CacheKey

LEMMA FetchReturnsIInv ==
  ASSUME IInv, NEW t \in Threads, FetchReturns(t)
  PROVE  IInv'
<1> DEFINE entry == [value |-> minted[t], expires_at |-> ExpiresAt(t)]
           refresh == [by |-> t, call |-> calls[t], grant |-> grant[t], now |-> now[t],
                       lifetime |-> minted[t].lifetime]
<1>0. /\ entry \in CachedToken /\ entry # None
      /\ cache' = [cache EXCEPT ![grant[t]] = entry]
      /\ stored' = stored \cup {refresh}
      /\ refresh \in [by: Threads, call: Nat, grant: Grants, now: Nat, lifetime: Lifetimes]
      /\ result' = [result EXCEPT ![t] = minted[t]]
      /\ now[t] \in Nat /\ minted[t].lifetime \in Nat
  <2>0. /\ None \notin CachedToken
        /\ minted[t] \in Token /\ ExpiresAt(t) \in Nat
    BY StoredExpiry, TokenCacheAssumption DEF CachedToken, Token
  <2>1. entry \in CachedToken /\ entry # None
    <3>1. entry \in CachedToken
      BY <2>0 DEF CachedToken
    <3> QED BY <2>0, <3>1
  <2>2. now[t] \in Nat /\ minted[t].lifetime \in Nat /\ minted[t].lifetime \in Lifetimes
    BY StoredExpiry, TokenCacheAssumption DEF IInv, TypeOK, Token
  <2>3. refresh \in [by: Threads, call: Nat, grant: Grants, now: Nat, lifetime: Lifetimes]
    BY <2>2, StoredExpiry DEF IInv, TypeOK
  <2> QED BY <2>1, <2>2, <2>3, StoredExpiry DEF FetchReturns
<1>1. TypeOK'
  <2> HIDE DEF entry, refresh
  <2>1. cache' \in [Grants -> CachedToken \cup {None}] /\ result' \in [Threads -> Token \cup {None}]
    BY <1>0, StoredExpiry DEF IInv, TypeOK
  <2>2. stored' \subseteq [by: Threads, call: Nat, grant: Grants, now: Nat, lifetime: Lifetimes]
    BY <1>0 DEF IInv, TypeOK
  <2> QED BY <2>1, <2>2 DEF IInv, TypeOK, FetchReturns, EndFetch, Phases, call
<1>2. LockIsHeld' /\ ReadingsArePast'
  BY TokenCacheAssumption
     DEF IInv, TypeOK, FetchReturns, EndFetch, Phases, call, LockIsHeld, ReadingsArePast
<1>3. MintedIsSound'
  BY DEF IInv, TypeOK, FetchReturns, EndFetch, Phases, call, MintedIsSound
<1>4. FetchIsNeeded'
  BY <1>2, TokenCacheAssumption DEF LockIsHeld, FetchIsNeeded, FetchReturns, EndFetch
<1>5. CacheIsSound'
  BY <1>0, StoredExpiry DEF IInv, TypeOK, CacheIsSound
<1>6. ResultIsSound'
  <2>1. minted[t].lifetime > Margin => minted[t].expiry > now[t] + Margin
    BY TokenCacheAssumption, <1>0, StoredExpiry DEF ExpiresAt, Token
  <2> QED BY <1>0, <2>1, StoredExpiry
          DEF IInv, TypeOK, FetchReturns, EndFetch, call, ResultIsSound
<1>7. CacheIsLatest' /\ RefreshesAreSpaced'
  <2> SUFFICES ASSUME LongLived PROVE CacheIsLatest' /\ RefreshesAreSpaced'
    BY DEF CacheIsLatest, RefreshesAreSpaced, LongLived
  <2>1. \A p \in stored : p.grant = grant[t] =>
          /\ p.now + p.lifetime - Margin <= now[t]
          /\ p.now + p.lifetime <= now[t] + minted[t].lifetime
    <3> SUFFICES ASSUME NEW p \in stored, p.grant = grant[t]
                 PROVE  /\ p.now + p.lifetime - Margin <= now[t]
                        /\ p.now + p.lifetime <= now[t] + minted[t].lifetime
      OBVIOUS
    <3>1. /\ cache[grant[t]] # None
          /\ p.now + p.lifetime <= cache[grant[t]].expires_at
          /\ cache[grant[t]].expires_at - Margin <= now[t]
      BY StoredExpiry DEF IInv, CacheIsLatest
    <3>2. p.now \in Nat /\ p.lifetime \in Nat /\ cache[grant[t]].expires_at \in Nat
      BY <3>1, StoredExpiry, TokenCacheAssumption DEF IInv, TypeOK, CachedToken
    <3>3. minted[t].lifetime >= Margin
      BY StoredExpiry DEF LongLived, Token
    <3> QED BY <1>0, <3>1, <3>2, <3>3, TokenCacheAssumption
  <2>2. CacheIsLatest'
    <3> SUFFICES ASSUME NEW p \in stored'
                 PROVE  cache'[p.grant] # None /\ p.now + p.lifetime <= cache'[p.grant].expires_at
      BY DEF CacheIsLatest
    <3>1. CASE p.grant = grant[t]
      <4>1. cache'[p.grant] = entry /\ entry.expires_at = now[t] + minted[t].lifetime
        BY <1>0, <3>1, StoredExpiry DEF IInv, TypeOK, ExpiresAt
      <4>2. p.now + p.lifetime <= now[t] + minted[t].lifetime
        BY <1>0, <2>1, <3>1
      <4> QED BY <1>0, <4>1, <4>2
    <3>2. CASE p.grant # grant[t]
      BY <1>0, <3>2, StoredExpiry DEF IInv, TypeOK, CacheIsLatest
    <3> QED BY <3>1, <3>2
  <2>3. RefreshesAreSpaced'
    BY <1>0, <2>1 DEF IInv, RefreshesAreSpaced
  <2> QED BY <2>2, <2>3
<1> QED BY <1>1, <1>2, <1>3, <1>4, <1>5, <1>6, <1>7 DEF IInv

LEMMA FetchFailsIInv ==
  ASSUME IInv, NEW t \in Threads, FetchFails(t)
  PROVE  IInv'
<1>1. TypeOK' /\ LockIsHeld' /\ ReadingsArePast'
  BY TokenCacheAssumption
     DEF IInv, TypeOK, FetchFails, EndFetch, Phases, call, LockIsHeld, ReadingsArePast
<1>2. MintedIsSound' /\ FetchIsNeeded' /\ ResultIsSound'
  BY DEF IInv, TypeOK, FetchFails, EndFetch, Phases, call, MintedIsSound, FetchIsNeeded,
     ResultIsSound, Usable, CacheKey
<1>3. CacheIsSound' /\ CacheIsLatest' /\ RefreshesAreSpaced'
  BY DEF IInv, FetchFails, CacheIsSound, CacheIsLatest, RefreshesAreSpaced
<1> QED BY <1>1, <1>2, <1>3 DEF IInv

LEMMA TickIInv == IInv /\ Tick => IInv'
BY DEF IInv, TypeOK, Tick, call, LockIsHeld, ReadingsArePast, MintedIsSound, FetchIsNeeded,
   Usable, CacheKey, CacheIsSound, ResultIsSound, CacheIsLatest, RefreshesAreSpaced

LEMMA NextIInv == IInv /\ [Next]_vars => IInv'
<1> SUFFICES ASSUME IInv, [Next]_vars PROVE IInv'
  OBVIOUS
<1>1. CASE Next
  BY <1>1, CallIInv, UseCachedIInv, RefuseIInv, BeginFetchIInv, MintIInv,
     FetchReturnsIInv, FetchFailsIInv, TickIInv DEF Next, GetToken
<1>2. CASE UNCHANGED vars
  BY <1>2 DEF vars, call, IInv, TypeOK, LockIsHeld, ReadingsArePast, MintedIsSound,
     FetchIsNeeded, Usable, CacheKey, CacheIsSound, ResultIsSound, CacheIsLatest,
     RefreshesAreSpaced
<1> QED BY <1>1, <1>2

(* The invariant that carries every property below. *)
THEOREM Invariance == Spec => []IInv
BY InitIInv, NextIInv, PTL DEF Spec

----------------------------------------------------------------------------

(* get_token keeps the shapes of its state. *)
THEOREM TypeCorrect == Spec => []TypeOK
<1>1. IInv => TypeOK
  BY DEF IInv
<1> QED BY <1>1, Invariance, PTL

(* The recorded expiry of a cached token is never after its real one. *)
THEOREM Conservative == Spec => []CacheIsConservative
<1>1. IInv => CacheIsConservative
  BY DEF IInv, CacheIsSound, CacheIsConservative
<1> QED BY <1>1, Invariance, PTL

(* No call is given a token of another audience or scope. *)
THEOREM GrantMatches == Spec => []TokensMatchTheirGrant
<1>1. IInv => TokensMatchTheirGrant
  BY DEF IInv, ResultIsSound, TokensMatchTheirGrant
<1> QED BY <1>1, Invariance, PTL

(* A returned token outlives the start of the call by more than the margin.*)
THEOREM OutlivesMargin == Spec => []TokensOutliveTheMargin
<1>1. IInv => TokensOutliveTheMargin
  BY DEF IInv, ResultIsSound, TokensOutliveTheMargin
<1> QED BY <1>1, Invariance, PTL

(* Concurrent callers never make the endpoint mint more than one usable    *)
(* token at a time for a grant.                                            *)
THEOREM Spaced == Spec => []RefreshesAreSpaced
<1>1. IInv => RefreshesAreSpaced
  BY DEF IInv
<1> QED BY <1>1, Invariance, PTL

(* A refresh never shortens what is cached. *)
THEOREM Forward == Spec => ExpiryMovesForward
<1> DEFINE Later ==
      \A g \in Grants :
        cache[g] # None /\ cache'[g].value.lifetime >= Margin =>
          cache'[g].expires_at >= cache[g].expires_at
<1>1. ASSUME IInv, Next PROVE Later
  <2>1. CASE UNCHANGED cache
    BY <1>1, <2>1, TokenCacheAssumption DEF IInv, TypeOK, CachedToken
  <2>2. ASSUME NEW t \in Threads, FetchReturns(t) PROVE Later
    <3> SUFFICES ASSUME NEW g \in Grants, cache[g] # None, cache'[g].value.lifetime >= Margin
                 PROVE  cache'[g].expires_at >= cache[g].expires_at
      OBVIOUS
    <3>1. cache[g].expires_at \in Nat
      BY <1>1 DEF IInv, TypeOK, CachedToken
    <3>2. CASE g = grant[t]
      <4>1. cache'[g] = [value |-> minted[t], expires_at |-> ExpiresAt(t)]
        BY <1>1, <2>2, <3>2, StoredExpiry DEF IInv, TypeOK
      <4>2. minted[t].lifetime \in Nat /\ now[t] \in Nat
        BY <1>1, <2>2, StoredExpiry, TokenCacheAssumption DEF Token, IInv, TypeOK
      <4>3. cache[g].expires_at - Margin <= now[t]
        BY <1>1, <2>2, <3>2, StoredExpiry
      <4> QED BY <3>1, <4>1, <4>2, <4>3, TokenCacheAssumption DEF ExpiresAt
    <3>3. CASE g # grant[t]
      BY <1>1, <2>2, <3>1, <3>3, StoredExpiry DEF IInv, TypeOK
    <3> QED BY <3>2, <3>3
  <2> QED BY <1>1, <2>1, <2>2
          DEF Next, GetToken, Call, UseCached, RefuseUnconfigured, BeginFetch, Mint, FetchFails, Tick
<1>2. IInv /\ [Next]_vars => [Later]_vars
  BY <1>1
<1> QED BY <1>2, Invariance, PTL DEF Spec, ExpiryMovesForward

----------------------------------------------------------------------------
(* The verifier.  What carries its two properties is that a key set is     *)
(* never older than a fetch when it arrives, and that a thread knows of    *)
(* every key that was published all through its call.                      *)

(* The kept key set was published less than a fetch before it was put. *)
CopyIsRecent ==
  /\ jwkSet.at <= time
  /\ \A k \in jwkSet.keys : k \in published \/ jwkSet.at <= withdrawn[k] + FetchTime

(* So was, after its fetch began, one on its way. *)
RepliesAreRecent ==
  \A t \in Handlers :
    /\ reply[t] # {} => pc[t] \in {"fetching", "refreshing"}
    /\ pc[t] \in {"fetching", "refreshing"} => began[t] <= time /\ time <= began[t] + FetchTime
    /\ \A k \in reply[t] : k \in published \/ began[t] <= withdrawn[k]

(* A steady call finds its key in whatever it receives. *)
CallsAreSteady ==
  \A t \in Handlers : pc[t] # "idle" =>
    /\ verdict[t] = "none"
    /\ ~unsteady[t] =>
         /\ token[t].kid \in published
         /\ reply[t] # {} => token[t].kid \in reply[t]

VerifierInv ==
  /\ VerifierTypeOK
  /\ CopyIsRecent
  /\ RepliesAreRecent
  /\ CallsAreSteady
  /\ GenuineTokensPass

LEMMA VerifierConstants ==
  /\ Lifespan \in Nat /\ FetchTime \in Nat
  /\ \A k \in Tokens : k.standard \in BOOLEAN /\ k.exp \in Nat
BY VerifierAssumption

LEMMA VerifierInitInv == VerifierInit => VerifierInv
<1> SUFFICES ASSUME VerifierInit PROVE VerifierInv
  OBVIOUS
<1>1. (CHOOSE k \in Tokens : TRUE) \in Tokens
  BY VerifierAssumption
<1>2. VerifierTypeOK
  BY <1>1 DEF VerifierInit, VerifierTypeOK, Empty
<1> QED BY <1>2, VerifierConstants DEF VerifierInit, VerifierInv, CopyIsRecent, RepliesAreRecent,
           CallsAreSteady, GenuineTokensPass, Empty

(* What a verdict rests on. *)
LEMMA UnacceptableIsExcused ==
  ASSUME NEW k \in Tokens, ~Acceptable(k), time \in Nat
  PROVE  \/ k.exp <= time
         \/ k.signer # k.kid \/ ~k.standard
         \/ k.tokenUse # "service" \/ Scope \notin k.scopes
         \/ {k.sub, k.clientId} # {Caller}
<1>1. \/ k.signer # k.kid \/ ~k.standard \/ ~(k.exp > time)
      \/ k.tokenUse # "service" \/ k.sub # Caller \/ k.clientId # Caller
      \/ Scope \notin k.scopes
  BY DEF Acceptable, Scopes
<1>2. ~(k.exp > time) => k.exp <= time
  BY VerifierConstants
<1>3. k.sub # Caller \/ k.clientId # Caller => {k.sub, k.clientId} # {Caller}
  OBVIOUS
<1> QED BY <1>1, <1>2, <1>3

LEMMA TypeStep == VerifierTypeOK /\ [VerifierNext]_verifier => VerifierTypeOK'
<1> SUFFICES ASSUME VerifierTypeOK, [VerifierNext]_verifier PROVE VerifierTypeOK'
  OBVIOUS
<1> USE DEF VerifierTypeOK, issuer
<1>1. CASE SecondPasses
  BY <1>1 DEF SecondPasses
<1>2. CASE Rotate
  BY <1>2 DEF Rotate
<1>3. ASSUME NEW t \in Handlers, Verify(t) PROVE VerifierTypeOK'
  BY <1>3 DEF Verify
<1>4. ASSUME NEW t \in Handlers, Lookup(t) PROVE VerifierTypeOK'
  BY <1>4 DEF Lookup, Fetch, Decide, End
<1>5. ASSUME NEW t \in Handlers, Respond(t) PROVE VerifierTypeOK'
  BY <1>5 DEF Respond
<1>6. ASSUME NEW t \in Handlers, Receive(t) PROVE VerifierTypeOK'
  BY <1>6 DEF Receive, Fetch, Decide, End
<1>7. ASSUME NEW t \in Handlers, FetchRaises(t) PROVE VerifierTypeOK'
  BY <1>7 DEF FetchRaises, End, Empty
<1>8. CASE UNCHANGED verifier
  BY <1>8 DEF verifier
<1> QED BY <1>1, <1>2, <1>3, <1>4, <1>5, <1>6, <1>7, <1>8 DEF VerifierNext

LEMMA RecentStep ==
  VerifierTypeOK /\ CopyIsRecent /\ RepliesAreRecent /\ [VerifierNext]_verifier
    => CopyIsRecent' /\ RepliesAreRecent'
<1> SUFFICES ASSUME VerifierTypeOK, CopyIsRecent, RepliesAreRecent, [VerifierNext]_verifier
             PROVE  CopyIsRecent' /\ RepliesAreRecent'
  OBVIOUS
<1> USE VerifierConstants DEF VerifierTypeOK, CopyIsRecent, RepliesAreRecent, issuer
<1>1. CASE SecondPasses
  BY <1>1 DEF SecondPasses
<1>2. CASE Rotate
  <2>1. \A k \in Keys :
          k \in published =>
            \/ k \in published'
            \/ withdrawn'[k] = time
    BY <1>2 DEF Rotate
  <2>2. \A k \in Keys : k \notin published => withdrawn'[k] = withdrawn[k]
    BY <1>2 DEF Rotate
  <2>3. UNCHANGED <<time, jwkSet, pc, began, reply>>
    BY <1>2 DEF Rotate
  <2>4. CopyIsRecent'
    BY <2>1, <2>2, <2>3
  <2>5. RepliesAreRecent'
    BY <2>1, <2>2, <2>3
  <2> QED BY <2>4, <2>5
<1>3. ASSUME NEW t \in Handlers, Verify(t) PROVE CopyIsRecent' /\ RepliesAreRecent'
  BY <1>3 DEF Verify
<1>4. ASSUME NEW t \in Handlers, Lookup(t) PROVE CopyIsRecent' /\ RepliesAreRecent'
  BY <1>4 DEF Lookup, Fetch, Decide, End
<1>5. ASSUME NEW t \in Handlers, Respond(t) PROVE CopyIsRecent' /\ RepliesAreRecent'
  BY <1>5 DEF Respond
<1>6. ASSUME NEW t \in Handlers, Receive(t) PROVE CopyIsRecent' /\ RepliesAreRecent'
  <2>1. CopyIsRecent'
    BY <1>6 DEF Receive
  <2>2. RepliesAreRecent'
    BY <1>6 DEF Receive, Fetch, Decide, End
  <2> QED BY <2>1, <2>2
<1>7. ASSUME NEW t \in Handlers, FetchRaises(t) PROVE CopyIsRecent' /\ RepliesAreRecent'
  BY <1>7 DEF FetchRaises, End, Empty
<1>8. CASE UNCHANGED verifier
  BY <1>8 DEF verifier
<1> QED BY <1>1, <1>2, <1>3, <1>4, <1>5, <1>6, <1>7, <1>8 DEF VerifierNext

(* One thread's part of it. *)
Steady(t) ==
  pc[t] # "idle" =>
    /\ verdict[t] = "none"
    /\ ~unsteady[t] =>
         /\ token[t].kid \in published
         /\ reply[t] # {} => token[t].kid \in reply[t]

Excused(t) ==
  \/ unsteady[t]
  \/ token[t].exp <= time
  \/ token[t].signer # token[t].kid \/ ~token[t].standard
  \/ token[t].tokenUse # "service" \/ Scope \notin token[t].scopes
  \/ {token[t].sub, token[t].clientId} # {Caller}

Sound(t) == Steady(t) /\ (verdict[t] \in {"refused", "raised"} => Excused(t))

LEMMA SoundIsEnough == (\A t \in Handlers : Sound(t)) <=> CallsAreSteady /\ GenuineTokensPass
BY DEF Sound, Steady, Excused, CallsAreSteady, GenuineTokensPass

LEMMA SteadyStep == VerifierInv /\ [VerifierNext]_verifier => \A t \in Handlers : Sound(t)'
<1> SUFFICES ASSUME VerifierInv, [VerifierNext]_verifier, NEW u \in Handlers
             PROVE  Sound(u)'
  OBVIOUS
<1>s. Sound(u)
  BY SoundIsEnough DEF VerifierInv
<1> USE DEF issuer
<1>t. VerifierTypeOK /\ RepliesAreRecent
  BY DEF VerifierInv
<1>1. CASE SecondPasses
  <2>1. token[u].exp <= time => token[u].exp <= time + 1
    BY <1>t, VerifierConstants DEF VerifierTypeOK
  <2> QED BY <1>1, <1>s, <2>1 DEF SecondPasses, Sound, Steady, Excused
<1>2. CASE Rotate
  <2>1. unsteady'[u] <=> unsteady[u] \/ token[u].kid \notin published'
    BY <1>2 DEF Rotate
  <2> QED BY <1>2, <1>s, <2>1 DEF Rotate, Sound, Steady, Excused
(* A step of one thread leaves the others as they were. *)
<1>o. ASSUME UNCHANGED <<time, published>>,
             UNCHANGED <<pc[u], token[u], reply[u], unsteady[u], verdict[u]>>
      PROVE  Sound(u)'
  BY <1>o, <1>s DEF Sound, Steady, Excused
(* A call that ends with Decide is refused for what the token is. *)
<1>d. ASSUME Decide(u), UNCHANGED <<time, token, unsteady>>
      PROVE  Sound(u)'
  <2>1. pc'[u] = "idle"
    BY <1>d, <1>t DEF Decide, End, VerifierTypeOK
  <2>2. verdict'[u] = IF Acceptable(token[u]) THEN "accepted" ELSE "refused"
    BY <1>d, <1>t DEF Decide, End, VerifierTypeOK
  <2>3. token[u] \in Tokens /\ time \in Nat
    BY <1>t DEF VerifierTypeOK
  <2>4. ~Acceptable(token[u]) => Excused(u)
    BY <2>3, UnacceptableIsExcused DEF Excused
  <2>5. Excused(u) => Excused(u)'
    BY <1>d DEF Excused
  <2> QED BY <2>1, <2>2, <2>4, <2>5 DEF Sound, Steady
<1>f. ASSUME NEW stage, Fetch(u, stage), UNCHANGED <<time, published, token, unsteady>>, pc[u] # "idle"
      PROVE  Sound(u)'
  <2>1. reply'[u] = {} /\ UNCHANGED verdict
    BY <1>f, <1>t DEF Fetch, VerifierTypeOK
  <2>2. verdict[u] = "none"
    BY <1>f, <1>s DEF Sound, Steady
  <2> QED BY <1>f, <1>s, <2>1, <2>2 DEF Sound, Steady
<1>3. ASSUME NEW t \in Handlers, Verify(t) PROVE Sound(u)'
  <2>1. CASE t = u
    <3>1. PICK k \in Tokens : token' = [token EXCEPT ![t] = k]
                              /\ unsteady' = [unsteady EXCEPT ![t] = k.kid \notin published]
      BY <1>3 DEF Verify
    <3>2. token'[u] = k /\ (unsteady'[u] <=> k.kid \notin published)
      BY <1>t, <2>1, <3>1 DEF VerifierTypeOK
    <3>3. verdict'[u] = "none" /\ UNCHANGED <<published, reply>>
      BY <1>3, <1>t, <2>1 DEF Verify, VerifierTypeOK
    <3>4. reply[u] = {}
      BY <1>3, <1>t, <2>1 DEF Verify, RepliesAreRecent
    <3> QED BY <3>2, <3>3, <3>4 DEF Sound, Steady
  <2> QED BY <1>3, <1>o, <1>t, <2>1 DEF Verify, VerifierTypeOK
<1>4. ASSUME NEW t \in Handlers, Lookup(t) PROVE Sound(u)'
  <2>1. CASE t = u
    BY <1>4, <1>d, <1>f, <2>1 DEF Lookup
  <2>2. CASE t # u
    BY <1>4, <1>o, <1>t, <2>2 DEF Lookup, Fetch, Decide, End, VerifierTypeOK
  <2> QED BY <2>1, <2>2
<1>5. ASSUME NEW t \in Handlers, Respond(t) PROVE Sound(u)'
  <2>1. CASE t = u
    <3>1. reply'[u] = published /\ UNCHANGED <<time, published, pc, token, unsteady, verdict>>
      BY <1>5, <1>t, <2>1 DEF Respond, VerifierTypeOK
    <3> QED BY <1>s, <3>1 DEF Sound, Steady, Excused
  <2> QED BY <1>5, <1>o, <1>t, <2>1 DEF Respond, VerifierTypeOK
<1>6. ASSUME NEW t \in Handlers, Receive(t) PROVE Sound(u)'
  <2>0. UNCHANGED <<time, published, token, unsteady>>
    BY <1>6 DEF Receive
  <2>1. CASE t = u
    <3>1. reply[u] # {} /\ pc[u] # "idle"
      BY <1>6, <1>t, <2>1 DEF Receive, RepliesAreRecent
    <3>2. CASE token[u].kid \in reply[u] /\ Decide(u)
      BY <1>d, <2>0, <3>2
    <3>3. CASE Fetch(u, "refreshing")
      BY <1>f, <2>0, <3>1, <3>3
    <3>4. CASE token[u].kid \notin reply[u] /\ End(u, "refused")
      <4>1. unsteady[u]
        BY <1>s, <3>1, <3>4 DEF Sound, Steady
      <4>2. pc'[u] = "idle"
        BY <1>t, <3>4 DEF End, VerifierTypeOK
      <4> QED BY <2>0, <4>1, <4>2 DEF Sound, Steady, Excused
    <3> QED BY <1>6, <2>1, <3>2, <3>3, <3>4 DEF Receive
  <2>2. CASE t # u
    BY <1>6, <1>o, <1>t, <2>2 DEF Receive, Fetch, Decide, End, VerifierTypeOK
  <2> QED BY <2>1, <2>2
<1>7. ASSUME NEW t \in Handlers, FetchRaises(t) PROVE Sound(u)'
  <2>1. CASE t = u
    <3>1. unsteady'[u] /\ pc'[u] = "idle"
      BY <1>7, <1>t, <2>1 DEF FetchRaises, End, VerifierTypeOK
    <3> QED BY <3>1 DEF Sound, Steady, Excused
  <2> QED BY <1>7, <1>o, <1>t, <2>1 DEF FetchRaises, End, VerifierTypeOK
<1>8. CASE UNCHANGED verifier
  BY <1>8, <1>o DEF verifier
<1> QED BY <1>1, <1>2, <1>3, <1>4, <1>5, <1>6, <1>7, <1>8 DEF VerifierNext

LEMMA VerifierInvariance == VerifierSpec => []VerifierInv
<1>1. VerifierInv /\ [VerifierNext]_verifier => VerifierInv'
  <2>1. (\A t \in Handlers : Sound(t)') => CallsAreSteady' /\ GenuineTokensPass'
    BY DEF Sound, Steady, Excused, CallsAreSteady, GenuineTokensPass
  <2> QED BY <2>1, TypeStep, RecentStep, SteadyStep DEF VerifierInv
<1> QED BY <1>1, VerifierInitInv, PTL DEF VerifierSpec

(* The verifier's variables keep their shapes. *)
THEOREM VerifierTypeCorrect == VerifierSpec => []VerifierTypeOK
<1>1. VerifierInv => VerifierTypeOK
  BY DEF VerifierInv
<1> QED BY <1>1, VerifierInvariance, PTL

(* A genuine token is only refused for a cause outside this process. *)
THEOREM GenuinePass == VerifierSpec => []GenuineTokensPass
<1>1. VerifierInv => GenuineTokensPass
  BY DEF VerifierInv
<1> QED BY <1>1, VerifierInvariance, PTL

(* A withdrawn key is honoured for the lifespan and one fetch at most. *)
THEOREM WithdrawnExpire == VerifierSpec => WithdrawnKeysExpire
<1> DEFINE InTime(t) ==
      Accepts(t) => \/ token[t].kid \in published
                    \/ time <= withdrawn[token[t].kid] + Lifespan + FetchTime
<1>1. VerifierInv /\ [VerifierNext]_verifier => [\A t \in Handlers : InTime(t)]_verifier
  <2> SUFFICES ASSUME VerifierInv, VerifierNext, NEW u \in Handlers, Accepts(u)
               PROVE  \/ token[u].kid \in published
                      \/ time <= withdrawn[token[u].kid] + Lifespan + FetchTime
    OBVIOUS
  <2> USE VerifierConstants DEF VerifierInv, VerifierTypeOK, Accepts
  <2>1. CASE SecondPasses \/ Rotate
    BY <2>1 DEF SecondPasses, Rotate
  <2>2. ASSUME NEW t \in Handlers, Verify(t) \/ Respond(t) \/ FetchRaises(t) PROVE FALSE
    BY <2>2 DEF Verify, Respond, FetchRaises, End
  <2>3. ASSUME NEW t \in Handlers, Lookup(t)
        PROVE  \/ token[u].kid \in published
               \/ time <= withdrawn[token[u].kid] + Lifespan + FetchTime
    <3>1. t = u /\ Fresh /\ token[u].kid \in jwkSet.keys
      BY <2>3 DEF Lookup, Fetch, Decide, End
    <3> QED BY <3>1 DEF Fresh, CopyIsRecent
  <2>4. ASSUME NEW t \in Handlers, Receive(t)
        PROVE  \/ token[u].kid \in published
               \/ time <= withdrawn[token[u].kid] + Lifespan + FetchTime
    <3>1. t = u /\ token[u].kid \in reply[u]
      BY <2>4 DEF Receive, Fetch, Decide, End
    <3> QED BY <3>1 DEF RepliesAreRecent
  <2> QED BY <2>1, <2>2, <2>3, <2>4 DEF VerifierNext
<1> QED BY <1>1, VerifierInvariance, PTL DEF VerifierSpec, WithdrawnKeysExpire
=============================================================================
