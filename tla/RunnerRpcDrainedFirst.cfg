CONSTANTS
  N = 2
  MaxSess = 3
  ChanCap = 2
  BufferCap = 2
  MaxClose = 1
  AwaitSends = TRUE
  Beating = {FALSE}
SPECIFICATION Spec
PROPERTY DrainedFirst
CHECK_DEADLOCK FALSE
