SPECIFICATION Spec
CONSTANTS
  CkHalf = 4
  Wide = 4
  Half = 2
  Buckets = 2
  PrevSize = 1
  MaxStored = 1
  MinRun = 3
  Bytes = {0, 1}
  SourceLen = 2
  TargetLen = 6
  MaxInsts = 3
INVARIANTS
  MeaningKept
  OptimizedShape
CHECK_DEADLOCK FALSE
