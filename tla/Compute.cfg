CONSTANTS
  Stream = {s1, s2}
  Size = {1, 4}
  MaxBin = 2
  MaxHeld = 3
  MaxCalls = 7
  PoolThread = {p1, p2}
  Bucket = {1, 2}
  Policy <- Policies
  DefaultPolicy <- Roomy
  DeviceBytes = 5
  MaxAcquires = 5
  MaxPolicies = 1
  NumSlots = 3
  MaxUploads = 7
  Thread = {t1, t2}
  Builder = {t1}
  Optimiser = {t2}
  LeafVars <- XandW
  Captured = {2}
  NewData = {5}
  MaxOps = 2
  MaxCkpt = 1
  MaxBackward = 2
  MaxSet = 1
  MaxGuards = 2
  MaxAgCalls = 4
  NumGroups = 2
  GroupSize = 2
  n_experts = 3
  k_top = 2
  Ranks = {0, 1, 2}
  Lengths <- LengthSet
  Matrices <- MatrixSet
  GemmShapes <- GemmSet
  GemvShapes <- GemvSet
  TileShapes <- TileSet
  BlockShapes <- BlockSet
  RowShapes <- RowSet
  BatchShapes <- BatchSet
  TripleShapes <- TripleSet
  NormShapes <- NormSet
  HeadShapes <- HeadSet
  CacheShapes <- CacheSet
  AttnShapes <- AttnSet
  BatchAttnShapes <- BatchAttnSet
  ConvShapes <- ConvSet
  DeltaShapes <- DeltaSet
  RouteShapes <- RouteSet
  Widths <- WidthSet
  ExpertShapes <- ExpertSet
  GateShapes <- GateSet
  SplitShapes <- SplitSet
  VocabShapes <- VocabSet
  MaxDim = 3
  GridLengths <- GridLengthSet
  BroadcastPairs <- BroadcastSet
  WgpuRows <- WgpuRowSet
  ArgRows <- ArgRowSet
  ProductShapes <- MatmulSet
  Convolutions <- ConvolutionSet
  AttentionShapes <- AttentionSet
  CudaNorms <- CudaNormSet
  CudaHeads <- CudaHeadSet
  CudaTexts <- CudaTextSet
  CudaAttns <- CudaAttnSet
  Fp4Inputs <- Fp4Set
  FlashCases <- FlashSet
  GroupedCases <- GroupedSet
  RopeCases <- RopeSet
  CacheCases <- KvSet
  ScoreRows <- ScoreRowSet
  LlamaShapes <- LlamaSet
  HybridShapes <- HybridSet
  HostRows <- HostRowSet
  DrawCases <- DrawSet
  LoaderCases <- LoaderSet
  WeightCases <- WeightSet
SPECIFICATION ComputeSpec
SYMMETRY StreamSymmetry
INVARIANTS GradientsAreDerivatives
  StreamLocal PendingIsReleasable SizesAddUp
   EveryBufferHasAPlace PoolBounded
  UploadArrivesIntact ChoosesTheMostProbable  SharedMemoryRaceFree
CHECK_DEADLOCK FALSE
