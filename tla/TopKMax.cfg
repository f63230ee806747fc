CONSTANTS
  NumGroups = 2
  GroupSize = 2
  n_experts = 3
  k_top = 2
  Ranks = {0, 1, 2}
SPECIFICATION TkSpec
INVARIANTS MaxIsShared
CHECK_DEADLOCK FALSE
