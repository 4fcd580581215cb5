SPECIFICATION Spec
CONSTANTS
  WindowSizes = {1, 3}
  MinWindow = 2
  Chunks = {0, 1, 2, 3, 4, 7}
  MaxBytes = 8
  MaxFaults = 1
INVARIANTS
  WindowsPartition
  
  
PROPERTIES
  Delivers
  DecodingEnds
  
CHECK_DEADLOCK FALSE
