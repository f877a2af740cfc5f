SPECIFICATION VerifierSpec
CONSTANTS
  Handlers = {t1, t2}
  Keys <- MCKeys
  Tokens <- MCTokens
  Scope = "chat:process"
  Caller = "sst-bend"
  Lifespan = 1
  FetchTime = 1
  Horizon = 3
  MaxRotations = 2
INVARIANT
  GenuineTokensPass
PROPERTY
  WithdrawnKeysExpire
CHECK_DEADLOCK FALSE
