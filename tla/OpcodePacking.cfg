SPECIFICATION Spec
CONSTANTS
  SNear = 4
  SSame = 3
  SameWidth = 2
  ShortMax = 1
  Sizes = {1, 2, 3, 4, 5, 6, 7, 8, 9, 10, 11, 12, 13, 14, 15, 16, 17, 18, 19}
  MaxInsts = 2
INVARIANTS
  OpcodesMeanProgram
  TableIsChoice
CHECK_DEADLOCK FALSE
