SPECIFICATION PathSpec
CONSTANTS
  SNear = 4
  SSame = 3
  SameWidth = 2
  ShortMax = 1
  CkHalf = 4
  Wide = 4
  Half = 2
  Buckets = 4
  PrevSize = 4
  MaxStored = 100
  Bytes = {0, 1}
  SourceLens = {0, 5}
  TargetLens = {1, 5, 7}
  MaxWindows = 1
  ShortTarget = 4
  MinMatch = 2
  MinRun = 3
  SmallLook = 2
  LargeLook = 3
  LargeStep = 1
  SmallChain = 3
  SmallLChain = 2
  MaxLazy = 5
  LongEnough = 4
  Far = 5
  Farther = 6
INVARIANT
  AdjacentRunsSameByte
CHECK_DEADLOCK FALSE
