\* Asynchronous calls only, with one fault: a lost reply, a refused allocation,
\* a handle curl does not take, an error of curl.
SPECIFICATION FairSpec
CONSTANTS
  AsyncKinds = {"commit", "stream"}
  SyncKinds = {}
  NullReceipt = FALSE
  CurlMayFail = TRUE
  MaxReceiptAttempts = 2
  MaxCalls = 2
  MaxRequests = 6
  MaxFaults = 1
INVARIANTS
  TypeOK
  TransfersCounted
  AwaitedIsLive
  FetchHasParent
  OneFetchAtATime
  NoUseAfterFree
  ToldOnce
  BoundedFetches
  ZeroMeansSettled
PROPERTIES
  ToldIsFinal
  GrantedIsTold
