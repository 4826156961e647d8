SPECIFICATION MCSpec
CONSTANTS
  Names = {a, b}
  NoEntry = NoEntry
  Detached = Detached
  FdLimits = {2, 5}
  MaxClients = 3
  MaxGrants = 3
  Totals = {2, 4}
  Number = 2
  Copies = 2
  Waits = {1, 2}
  FileNames = {1, 2}
  Block = 2
  Absent = Absent
INVARIANTS
  ListIsOfTheClients
  EndsOnly
  SharedOnlyAfterAnEnd
  SizesFit
  FilesHaveTheirSize
  TapeIsFollowed
PROPERTIES
  EveryRequestAnswered
\* the server may end or search for a name for ever, and a run ends
CHECK_DEADLOCK FALSE
