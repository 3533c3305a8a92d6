SPECIFICATION Spec
CONSTANTS
  c1 = c1
  c2 = c2
  c3 = c3
  Calls = {c1, c2, c3}
  Kinds = {"write", "echo", "update"}
  DataLen = 2
  MaxRx = 2
  Bauds = {1, 2}
  OpenBaud = 1
SYMMETRY Perms
INVARIANTS
  TypeOK
  LockInv
  ModeChangeExclusive
  FramesIntact
  NoCircularWait
