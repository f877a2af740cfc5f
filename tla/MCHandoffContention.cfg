CONSTANTS
  Correlations <- OneCorrelation
  ReceiptIds <- OneKey
  ReceiptStatuses <- MCStatuses
  NoRef = NoRef
  Attempts = {a1, a2, a3}
  IntentRecords <- ContendedIntents
  Evidence = {e1, e2}
  NoReview = NoReview
  RemoteRefused <- NothingRefused
  Faults <- LossyHttp
  None = None
SPECIFICATION Spec
SYMMETRY Symmetric
INVARIANTS
  ConflictMeansAnotherPayload
  MismatchMeansOtherEvidence
CHECK_DEADLOCK FALSE
