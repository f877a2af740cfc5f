CONSTANTS
  Correlations <- OneCorrelation
  ReceiptIds <- OneKey
  ReceiptStatuses <- MCStatuses
  NoRef = NoRef
  Attempts = {a1}
  IntentRecords <- ContendedIntents
  Evidence = {e1, e2}
  NoReview = NoReview
  RemoteRefused <- NothingRefused
  Faults <- LossyHttp
  None = None
SPECIFICATION Spec
INVARIANT
  TransportErrorsAreNormalized
CHECK_DEADLOCK FALSE
