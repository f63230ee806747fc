CONSTANTS
  Request = {r1, r2, r3, r4}
  MaxBatch = 2
  QueueDepth = 2
  MinWorkers = 1
  MaxWorkers = 3
  Step = 1
  IdleWindow = 2
  MaxInFlight = 2
  MaxClock = 6
SPECIFICATION ServingSpec
INVARIANTS TypeOK OwnAnswer WaiterIsHeld NoShutdownAnswer ScrapeConsistent CountsWorkers
PROPERTIES ImplementsService Answered LoopEnds ReleaseNeedsIdleWindow
CHECK_DEADLOCK FALSE
