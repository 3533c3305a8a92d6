SPECIFICATION Spec
CONSTANTS
  NumCalls = 3
  Kinds = {"open", "close", "read", "write", "update", "getBaudRate", "flush", "drain"}
  MaxId = 2
  Programs = {FALSE}
INVARIANT OpsMatchCalls
