CONSTANTS
  MaxSeq = 16
  CommitPeriod = 1
  Tile = 2
  EntropyLayers = {1}
  EmThreshold = 3
  Margin = 1
  Nets <- RecurrentDrafts
  Unknown = 0
  AbortWindow = 2
  BreakEvenPct = 8
SPECIFICATION InferenceSpec
INVARIANT DecodesGreedily
CHECK_DEADLOCK FALSE
