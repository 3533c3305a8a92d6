SPECIFICATION FairSpec
CONSTANTS
  Quota = 3
  Platforms = {"windows"}
  Depth = 2
  MaxEvents = 3
  MaxErrors = 2
  StaysBroken = FALSE
INVARIANTS
  TypeOK
  HandlesStayValid
  NoEventAfterClose
  EventsInOrder
PROPERTIES
  EventReported
  CloseSettles
