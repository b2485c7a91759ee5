CONSTANTS
  Message = {m1}
  Answer = {"id", "echo", "lost", "error", "refused"}
  MaxFaults = 3
SPECIFICATION FairSpec
INVARIANTS
  SendingIsExclusive
  WithdrawalIsKept
  FinalHasNoButtons
PROPERTIES
  NoStaleCard
  WhatIsAskedIsDone
  UnclaimedMessagesArrive
CHECK_DEADLOCK FALSE
