\* Synchronous and asynchronous calls of every kind but subscriptions.
\* The process ends where a NULL receipt is written to.
SPECIFICATION Spec
CONSTANTS
  AsyncKinds = {"commit", "query"}
  SyncKinds = {"commit", "query", "state", "receipt"}
  NullReceipt = TRUE
  CurlMayFail = FALSE
  MaxReceiptAttempts = 2
  MaxCalls = 2
  MaxRequests = 6
  MaxFaults = 1
INVARIANTS
  TransfersCounted
  AwaitedIsLive
  FetchHasParent
  ToldOnce
  BoundedNesting
  ZeroMeansSettled
