CONSTANTS
  Driver = {d1}
  Order = {o1, o2}
  o1 = o1
  o2 = o2
  gorno = gorno
  village = village
  Gorno = gorno
  None = None
  Line = {gorno, village}
  Pickup <- FromVillage
  Dest <- ToVillage
  Returns = {}
  Desk = {}
  Delivery = {}
  ChatOpen = FALSE
  Reason = {"dislike"}
SPECIFICATION CallsSpec
INVARIANTS
  CardIsAlone
  ReservationFollowsTrip
  WaitsHaveTimers
PROPERTY
  SettlesUnlessRefused
