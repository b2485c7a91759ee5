CONSTANTS
  Key = {accept, delivery}
  Handler = {h1}
  Worker = {w1}
  None = None
  Token = {1, 2}
  MaxEvents = 2
  MaxCalls = 2
  MaxFaults = 0
SPECIFICATION Spec
INVARIANT
  NeverStuck
CHECK_DEADLOCK FALSE
