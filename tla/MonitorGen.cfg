SPECIFICATION FairSpec
CONSTANTS
  Ids = {m1, m2}
  Values = {0, 1, 2}
  NoValue = NoValue
  PushEarly = FALSE
  SocketRoom = 1
  MaxMessages = 5
INVARIANTS
  RegistrationMatches
  CrashesOnlyOnLateAnswer
PROPERTIES
  RelaySpec
  EveryNewsRelayed
\* a program that has ended takes no more steps
CHECK_DEADLOCK FALSE
