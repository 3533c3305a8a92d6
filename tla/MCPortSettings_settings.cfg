SPECIFICATION Spec
CONSTANTS
  Rates = {"9600", "115200"}
  DefaultRate = "9600"
  Tried <- EachValue
  Kinds = {"open", "update", "set", "close"}
  NumCalls = 4
INVARIANTS
  TypeOK
  RefusedOnlyForRate
  FrameFormatKept
  RateFollowsSettings
  LinesFollowSets
