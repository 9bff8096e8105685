\* Synchronous calls of every kind, next to a subscription that keeps transfers
\* above 0, with one fault: a lost reply, a handle curl does not take, an error.
SPECIFICATION FairSpec
CONSTANTS
  AsyncKinds = {"stream", "query"}
  SyncKinds = {"commit", "query", "receipt", "state"}
  NullReceipt = FALSE
  CurlMayFail = TRUE
  MaxReceiptAttempts = 2
  MaxCalls = 2
  MaxRequests = 6
  MaxFaults = 1
PROPERTY CallsReturn
