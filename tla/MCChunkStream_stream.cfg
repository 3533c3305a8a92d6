SPECIFICATION FairSpec
CONSTANTS
  BatchSize = 2
  Depth = 2
  Quota = 3
  MaxRx = 7
  Platforms = {"windows", "unix"}
INVARIANTS
  TypeOK
  OneOwner
  NoBatchLeaks
  InOrder
  NothingLost
  MemoryBounded
  DoneAfterChunksFifo
PROPERTIES
  ImplementsStream
  StreamEnds
