CONSTANTS
  N = 2
  MaxSess = 3
  ChanCap = 1
  BufferCap = 1
  MaxClose = 1
  AwaitSends = FALSE
  Beating = {TRUE, FALSE}
SPECIFICATION FairSpec
INVARIANTS ExactlyOnePlace
PROPERTY EventuallySettled
CHECK_DEADLOCK FALSE
