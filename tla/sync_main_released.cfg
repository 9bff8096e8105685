SPECIFICATION Spec
CONSTANTS
  AsyncKinds = {}
  SyncKinds = {"commit"}
  NullReceipt = FALSE
  CurlMayFail = FALSE
  MaxReceiptAttempts = 2
  MaxCalls = 1
  MaxRequests = 3
  MaxFaults = 0
INVARIANT NoUseAfterFree
