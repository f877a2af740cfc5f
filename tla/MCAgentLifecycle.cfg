CONSTANTS
  Intents = {i1}
  Correlations = {own, foreign}
  ReceiptIds = {r1, r2}
  ReceiptStatuses <- MCStatuses
  NoRef = NoRef
  MaxReceipts = 3
SPECIFICATION LifecyclesSpec
INVARIANTS
  AlwaysValid
  OwnershipIsEvidenced
  OwnershipIsOneWay
PROPERTIES
  AuditTrailIsAppendOnly
  LatestObservationDecides
CHECK_DEADLOCK FALSE
