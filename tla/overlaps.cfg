CONSTANTS
  Driver = {d1, d2}
  Order = {o1, o2}
  o1 = o1
  o2 = o2
  gorno = gorno
  village = village
  Gorno = gorno
  None = None
  Line = {gorno}
  Pickup <- Local
  Dest <- Local
  Returns = {}
  Desk = {}
  Delivery = {}
  ChatOpen = FALSE
  Reason = {}
  MaxKinds = 1
  Again <- AllButAnswers
SPECIFICATION OverlapSpec
VIEW OverlapView
SYMMETRY DriversAndOrders
INVARIANTS
  OneTripStill
  DutyUntilOvertaken
  StandsByUntilOvertaken
  QuestionUntilOverlooked

  
