SPECIFICATION FairTrafficSpec
CONSTANTS
  StepSize = 3
  MaxIndex = 2
  MaxLines = 4
INVARIANTS
  PointsInOrder
PROPERTIES
  LeavesAsOldest
  EventuallyDrawn
