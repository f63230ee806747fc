CONSTANTS
  Req = {q1, q2}
  MaxRuns = 1
  MaxAborts = 0
SPECIFICATION FairSpec
PROPERTIES CancelledIsFinal
