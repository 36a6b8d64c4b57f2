SPECIFICATION Spec
CONSTANTS
  Blocks <- TwoFlows
  NumMarshaller = 2
  MarshalCap = 1
  ReaderCap = 1
  FilePeriod = 0
  DayLength = 10
  ReportLimit = 10
  CreateMayFail = FALSE
  Anonymizer = "none"
  MaxLag = 0
  MaxBlocks = 3
  MaxTime = 1
INVARIANTS
  LogIsCurrent SnapshotsOnDisk EventsAlternate
