CONSTANTS
  Second = 2
  Minute = 2
  Free = 1
  Rate = 10
  MaxTime = 14
  MaxCars = 1
SPECIFICATION Spec
INVARIANTS
  NoWaitIsLost
  BillIsFair
PROPERTIES
  FrozenIsShown
CHECK_DEADLOCK FALSE
