\* A prefix may arrive in two chunks.
SPECIFICATION Spec
CONSTANTS
  Streams <- MCStreams
  MaxChunk = 7
  Base = 2
INVARIANT WholeMessages
