SPECIFICATION FairSpec
CONSTANTS
  c1 = c1
  c2 = c2
  Calls = {c1, c2}
  Kinds = {"read", "write", "echo", "bufferedRead", "update", "set", "get", "getBaudRate", "drain", "flush", "close"}
  DataLen = 2
  MaxRx = 2
  Bauds = {1, 2}
  OpenBaud = 1
PROPERTIES
  EveryCallCompletes
  ImplementsAccess
