CONSTANTS
  Key = {accept, delivery}
  Handler = {h1, h2}
  Worker = {w1}
  None = None
  Token = {1, 2}
  MaxEvents = 2
  MaxCalls = 2
  MaxFaults = 1
SPECIFICATION FairSpec
INVARIANTS
  RowsMatchTimers
PROPERTY
  TimersEnd
CHECK_DEADLOCK FALSE
