SPECIFICATION FairSpec
CONSTANTS
  HeaderLen = 3
  Lens = {0, 1, 2}
  Requests = 2
  MaxFrames = 3
INVARIANTS
  BuffersFit
  LostOnlyAtTheEnd
PROPERTIES
  EveryFrameDelivered
  DeliverySpec
\* a process killed by SIGPIPE takes no more steps
CHECK_DEADLOCK FALSE
