SPECIFICATION Spec
CONSTANTS
  Procs <- MCProcs
  Paths <- MCPaths
  Disks <- MCDisks
  Jobs <- MCJobs
INVARIANTS
  TypeOK
  
  KeptWithoutForce
  NothingTouchedEarly
  
CHECK_DEADLOCK FALSE
