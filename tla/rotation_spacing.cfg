SPECIFICATION Spec
CONSTANTS
  Blocks <- OneFlow
  NumMarshaller = 1
  MarshalCap = 1
  ReaderCap = 1
  FilePeriod = 1
  DayLength = 10
  ReportLimit = 10
  CreateMayFail = FALSE
  Anonymizer = "netblock"
  MaxLag = 0
  MaxBlocks = 3
  MaxTime = 3
INVARIANTS
  RotationSpacing
