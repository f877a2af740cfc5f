CONSTANTS
  Correlations <- TwoCorrelations
  ReceiptIds <- TwoKeys
  ReceiptStatuses <- MCStatuses
  NoRef = NoRef
  Attempts = {a1, a2}
  IntentRecords <- MixedIntents
  Evidence = {e1}
  NoReview = NoReview
  RemoteRefused <- HistoryRefused
  Faults <- AnyPort
  None = None
SPECIFICATION Spec
INVARIANTS
  StoredHandoffsArePermitted
  RequestedIsRegistered
  RejectedIsNotRegistered
PROPERTY
  ImplementsContract
CHECK_DEADLOCK FALSE
