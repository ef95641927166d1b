SPECIFICATION FairSpec
CHECK_DEADLOCK FALSE
CONSTANTS
  e1 = e1
  e2 = e2
  e3 = e3
  r1 = r1
  r2 = r2
  PageCount = 3
  Events <- MCEvents
  EventsOf <- MCEventsOf
  Runs <- MCRuns
  MaxCycles = 2
  RepeatLimit = 2
  Polls = 2
  Classes <- MCClasses
  MaxFaults = 4
  MaxRestarts = 2
INVARIANTS
  TypeOK
  NoEventLost
PROPERTIES
  RepeatsBounded
  CatchesUp
