SPECIFICATION FairSpec
CONSTANTS
  Topics = {t1, t2}
  Messages = {m1, m2}
  QueueMaxSize = 2
  MaxInbox = 1
  MaxAccepted = 3
INVARIANTS
  AllTopicsSubscribed
  NothingLostOrDoubled
  QueueBounded
PROPERTIES
  ActsAsQueue
  EverythingGoesOut
  Recovers
  StopEnds
CHECK_DEADLOCK FALSE
