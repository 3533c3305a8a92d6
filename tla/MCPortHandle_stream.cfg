SPECIFICATION Spec
CONSTANTS
  c1 = c1
  c2 = c2
  c3 = c3
  Calls = {c1, c2, c3}
  Kinds = {"read", "bufferedRead", "update", "getBaudRate", "flush"}
  DataLen = 2
  MaxRx = 3
  Bauds = {1, 2}
  OpenBaud = 1
SYMMETRY Perms
INVARIANTS
  NoStolenBytes
  LoopNeverWaitsForItself
  BaudRateIsDevices
