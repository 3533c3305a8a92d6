SPECIFICATION Spec
CONSTANTS
  BatchSize = 2
  Depth = 2
  Quota = 10
  MaxRx = 3
  Platforms = {"unix"}
INVARIANT DoneAfterChunks
