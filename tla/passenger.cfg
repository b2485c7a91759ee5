CONSTANTS
  OrderLimit = 1
  Legacy <- OldScreens
SPECIFICATION Spec
INVARIANTS
  RatingAddsUp
  BookingIsComplete

  
  
ACTION_CONSTRAINT
  BoundedSteps
