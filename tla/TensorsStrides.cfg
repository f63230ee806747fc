CONSTANTS
  MaxTensors = 3
  StartShapes <- Matrix
  MaxTensorCalls = 3
SPECIFICATION TensorSpec
INVARIANT BinaryReadsStrides
CHECK_DEADLOCK FALSE
