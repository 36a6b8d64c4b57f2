SPECIFICATION Spec
CONSTANTS
  Blocks <- OneFlow
  NumMarshaller = 1
  MarshalCap = 1
  ReaderCap = 1
  FilePeriod = 0
  DayLength = 10
  ReportLimit = 10
  CreateMayFail = TRUE
  Anonymizer = "none"
  MaxLag = 0
  MaxBlocks = 3
  MaxTime = 1
INVARIANTS
  EventsAlternate
