CONSTANTS
  Driver = {d1, d2}
  Line = {}
  None = None
  Booking = {1, 2}
  Desk = {2}
SPECIFICATION FairSpec
VIEW Seen
INVARIANTS
  NoticeFollowsBooking
  OneTrip
PROPERTIES
  RemindersReach
