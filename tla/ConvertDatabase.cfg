SPECIFICATION Spec
CONSTANTS
  Ids = {1}
  MaxInterrupts = 2
INVARIANTS
  NothingLost
  NothingTwice
  VersionMeansConverted
PROPERTY HalfConvertedStays
