CONSTANTS
  Driver = {d1, d2}
  Order = {o1}
  o1 = o1
  o2 = o2
  gorno = gorno
  village = village
  Gorno = gorno
  None = None
  Line = {gorno}
  Pickup <- Local
  Dest <- Local
  Returns = {}
  Desk = {}
  Delivery = {o1}
  ChatOpen = TRUE
  Reason = {"need_address", "far", "booking", "away"}
SPECIFICATION Spec
SYMMETRY Drivers
PROPERTIES
  NoHandover
  ClosedIsFinal
