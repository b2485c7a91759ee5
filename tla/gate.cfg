CONSTANTS
  Actor = {"alice", "bob", "carol"}
  Passenger = "alice"
  Shard = {"first", "second"}
  ShardOf <- MCShardOf
  Event <- MCEvent
  By <- MCBy
  Does <- MCDoes
  On <- MCOn
  Call = {11, 12}
  Slots = 2
  ReminderMax = 1
  MaxTrouble = 2
SPECIFICATION FairSpec
INVARIANTS
  EffectOnce
  DebtLocks
PROPERTIES
  EventsInOrder
  BlockedIsSilent
  EventsEnd
  RemindersEnd
CHECK_DEADLOCK FALSE
