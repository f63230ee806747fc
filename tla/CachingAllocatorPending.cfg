CONSTANTS
  Stream = {s1, s2}
  Size = {1, 2}
  MaxBin = 1
  MaxHeld = 2
  MaxCalls = 6
SPECIFICATION Spec
PROPERTIES PendingNotReused
CHECK_DEADLOCK FALSE
