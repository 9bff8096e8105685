\* Two calls, with timeouts and errors; the device starts over as often as it likes.
SPECIFICATION FairSpec
CONSTANTS
  Jobs <- MCJobs
  MaxCalls = 2
  MaxTimeouts = 2
  MaxFaults = 1
INVARIANTS
  TypeOK
  BufferFits
  SignedIsSent
  InOrder
PROPERTY CallReturns
\* The model stops when the calls are used up.
CHECK_DEADLOCK FALSE
