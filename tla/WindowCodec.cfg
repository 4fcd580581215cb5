SPECIFICATION Spec
CONSTANTS
  SNear = 4
  SSame = 3
  SameWidth = 2
  ShortMax = 1
  SourceLen = 11
  SrcOffsets = {1}
  Adds = {1, 4, 5, 18}
  Runs = {1, 18}
  Copies = {3, 4, 6, 7}
  Addrs = {0, 2, 4, 6}
  Bases = {3}
  MaxInsts = 3
  LongCopy = 4
  MaxCopies = 6
INVARIANTS
  DecodeRebuilds
  PositionsAgree
  SectionsConsumed
  ListingIsProgram
CHECK_DEADLOCK FALSE
