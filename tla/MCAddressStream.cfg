SPECIFICATION Spec
CONSTANTS
  SNear = 2
  SSame = 2
  SameWidth = 2
  ShortMax = 1
  SourceLens = {0, 5}
  Lens = {2}
  MaxItems = 5
INVARIANTS
  TypeOK
  CachesInStep
  AddressesSurvive
  FormsFit
  EncodeIsTheLoop
CHECK_DEADLOCK FALSE
