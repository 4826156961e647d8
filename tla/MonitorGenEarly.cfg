SPECIFICATION Spec
CONSTANTS
  Ids = {m1, m2}
  Values = {0, 1, 2}
  NoValue = NoValue
  PushEarly = TRUE
  SocketRoom = 1
  MaxMessages = 4
INVARIANT RegistrationMatches
CHECK_DEADLOCK FALSE
