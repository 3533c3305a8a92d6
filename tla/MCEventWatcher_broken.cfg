SPECIFICATION FairSpec
CONSTANTS
  Quota = 3
  Platforms = {"windows"}
  Depth = 1
  MaxEvents = 1
  MaxErrors = 1
  StaysBroken = TRUE
PROPERTY CloseSettles
