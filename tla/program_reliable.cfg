SPECIFICATION Program
CONSTANTS
  Blocks <- Answers
  NumMarshaller = 1
  MarshalCap = 2
  ReaderCap = 1
  FilePeriod = 0
  DayLength = 1
  ReportLimit = 10
  CreateMayFail = FALSE
  Anonymizer = "none"
  MaxLag = 2
  MaxBlocks = 4
  MaxTime = 2
  Sockets = {1}
  FamilyOf <- JustV4
  Reps = 4
  DumpMayFail = FALSE
  MarkKept = FALSE
  MaxBytes = 2
INVARIANTS
  NoFileOverwritten CloseMeansClosed BytesCountedOnce ClosingStatsExact
PROPERTIES
  ReportsEverySecond
