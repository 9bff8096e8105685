\* Every chunking: a chunk may hold the end of a message, the next one and the
\* beginning of a third, and may end within a prefix.
SPECIFICATION Spec
CONSTANTS
  Streams <- MCStreams
  MaxChunk = 7
  Base = 2
INVARIANTS
  TypeOK
  CopyFits
  IdleMeansHanded
PROPERTY Implements
