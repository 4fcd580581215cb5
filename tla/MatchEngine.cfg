SPECIFICATION Spec
CONSTANTS
  CkHalf = 4
  Wide = 4
  Half = 2
  Buckets = 4
  PrevSize = 4
  MaxStored = 6
  Bytes = {0, 1}
  SourceLens = {0, 5}
  TargetLens = {1, 2, 4, 8}
  MaxWindows = 2
  ShortTarget = 4
  MinMatch = 2
  MinRun = 3
  SmallLook = 2
  LargeLook = 3
  LargeStep = 1
  SmallChain = 3
  SmallLChain = 2
  MaxLazy = 5
  LongEnough = 4
  Far = 5
  Farther = 6
INVARIANTS
  MatchesTrue
  ScanStateFresh
  ComparisonsExact
  ChainSound
  SiftedDisjoint
  InstructionsRebuild
CHECK_DEADLOCK FALSE
