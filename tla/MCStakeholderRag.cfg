SPECIFICATION StakeholderSpec
CONSTANTS
  Principals <- MCPrincipals
  Envelopes <- MCEnvelopes
  MaxEnvelopes = 2
  Queries <- MCQueries
  Snapshots <- MCSnapshots
  Methodology <- MCMethodology
  SourceIds = {1, 2}
  Lists <- MCLists
  Values = {1, 2}
  Null = Null
  MethodologyLimit = 2
CHECK_DEADLOCK FALSE
INVARIANTS
  InputIsAllOrNothing
  EntitledRequestsPass
  HiddenValuesStayHidden
  AnswersAreExact
PROPERTY ImplementsGrounding
