CONSTANTS
  Driver = {d1}
  Order = {o1, o2}
  o1 = o1
  o2 = o2
  gorno = gorno
  village = village
  Gorno = gorno
  None = None
  Line = {gorno}
  Pickup <- Local
  Dest <- Local
  Returns = {}
  Desk = {}
  Delivery = {}
  ChatOpen = FALSE
  Reason = {}
SPECIFICATION FairSpec
PROPERTIES
  FreeDriversAreUsed
  WaitsEnd
