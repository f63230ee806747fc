CONSTANTS
  NOps = 3
  NExt = 1
  Kind <- SmallAndAligned
  Hooked = {2}
  View = {4}
  HintsFit = TRUE
  Budget = 6
  MaxTensors = 3
  StartShapes <- NewShapes
  MaxTensorCalls = 4
  CpuShapes <- ShapeSet
  CpuGemms <- GemmSet
  GemmMin = 2
  NnImages <- ImageSet
  NnKernels4 <- KernelSet
  NnMatrices <- MatrixSet
  MaxSeq = 16
  CommitPeriod = 1
  Tile = 2
  EntropyLayers = {1}
  EmThreshold = 3
  Margin = 1
  Nets <- NetSet
  Unknown = 0
  AbortWindow = 2
  BreakEvenPct = 8
  Setups <- SetupSet
  Param = {1, 2}
  MaxIterations = 3
  GrowthInterval = 2
  MaxScale = 24
  MaxNormSquared = 4
  StepSize = 2
  RectifiedFrom = 3
SPECIFICATION LibrarySpec
INVARIANTS TopologicalOrder PlanIsSound SlotsHoldTenants TensorsReadTheirElements
  KernelMatchesDefinition BackwardIsDerivative HostReadsAreCurrent DecodesGreedily TrainingFollowsItsRule
PROPERTY DecodingEnds
CHECK_DEADLOCK FALSE
