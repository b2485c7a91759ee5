CONSTANTS
  Driver = {d1, d2}
  Order = {o1, o2}
  o1 = o1
  o2 = o2
  gorno = gorno
  village = village
  Gorno = gorno
  None = None
  Line = {gorno}
  Pickup <- Local
  Dest <- Local
  Returns = {}
  Desk = {o2}
  Delivery = {}
  ChatOpen = FALSE
  Reason = {"dislike"}
SPECIFICATION Spec
VIEW View
SYMMETRY Drivers
INVARIANTS
  BusyIsOnTrip
  InOnePlace
PROPERTY
  NobodyOvertakes
