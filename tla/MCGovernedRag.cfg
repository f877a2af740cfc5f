SPECIFICATION Spec
CONSTANTS
  Records <- MCRecords
  Scopes <- MCScopes
  Ids <- MCIds
  Lists <- MCLists
  RetrievalLimit = 3
  MinimumScore = 1
  MaxContext = 5
  MaxClaims = 2
CHECK_DEADLOCK FALSE
INVARIANTS
  LeftOutForAReason
  OutcomesAreHonest
PROPERTY ImplementsGrounding
