SPECIFICATION FairSpec
CONSTANTS
  bob = bob
  eve = eve
  here = here
  there = there
  port = port
  checked = checked
  Domain = Domain
  Global = Global
  Blank = Blank
  NoForm = NoForm
  Forms <- MCForms
  Values <- MCValues
  MaxReads = 3
  MaxClicks = 3
INVARIANTS
  RunningIsTimed
  StoppedIsStill
  RunningIsNotEnding
  MonitorsWhatWasAsked
PROPERTIES
  StopEndsTheChild
\* after the quit button only a child may be left, waiting for a client
CHECK_DEADLOCK FALSE
