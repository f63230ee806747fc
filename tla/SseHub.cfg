CONSTANTS
  Client = {a}
  BroadcastCap = 2
  RingCap = 3
  Retention = 1
  MaxId = 5
  MaxTime = 3
  MaxEpoch = 1
SPECIFICATION FairSpec
INVARIANTS TypeOK RingIsRecentHistory AccountedFor
PROPERTIES InOrder EventuallySettled
CHECK_DEADLOCK FALSE
