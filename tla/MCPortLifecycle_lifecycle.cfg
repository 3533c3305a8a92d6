SPECIFICATION FairSpec
CONSTANTS
  NumCalls = 4
  Kinds = {"open", "close", "write", "drain"}
  MaxId = 2
  Programs = {TRUE, FALSE}
INVARIANTS
  TypeOK
  DisciplinedOpsMatchCalls
  EventSlotReleased
  PortsRegistered
  PortsReachable
  IsOpenAgrees
PROPERTY
  EveryCallSettles
