SPECIFICATION Spec
CONSTANTS
  AsyncKinds = {}
  SyncKinds = {}
  NullReceipt = TRUE
  CurlMayFail = FALSE
  MaxReceiptAttempts = 2
  MaxCalls = 1
  MaxRequests = 3
  MaxFaults = 0
INVARIANT NullReceiptNotFetched
