CONSTANTS
  Threads = {t1, t2}
  Grants <- MCGrants
  Lifetimes = {1, 3}
  Margin = 1
  None = None
  MaxCalls = 2
  MaxTime = 3
SPECIFICATION FairSpec
INVARIANTS
  TokensMatchTheirGrant
  TokensOutliveTheMargin
  RefreshesAreSpaced
PROPERTIES
  EveryCallEnds
CHECK_DEADLOCK FALSE
