SPECIFICATION Spec
CONSTANTS
  NumCalls = 5
  Kinds = {"open", "close", "read", "list", "getBaudRate"}
  MaxId = 2
  Programs = {TRUE}
INVARIANT
  CanceledMeansClosed
PROPERTY
  CloseCancels
