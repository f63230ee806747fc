CONSTANTS
  Req = {q1, q2}
  MaxRuns = 2
  MaxAborts = 1
SPECIFICATION FairSpec
INVARIANTS RefetchIsCurrent EventIsCurrent
PROPERTIES ChangeIsAnnounced
