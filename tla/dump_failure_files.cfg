SPECIFICATION Program
CONSTANTS
  Blocks <- Answers
  NumMarshaller = 1
  MarshalCap = 2
  ReaderCap = 1
  FilePeriod = 0
  DayLength = 1
  ReportLimit = 10
  CreateMayFail = FALSE
  Anonymizer = "none"
  MaxLag = 0
  MaxBlocks = 3
  MaxTime = 0
  Sockets = {1}
  FamilyOf <- JustV4
  Reps = 3
  DumpMayFail = TRUE
  MarkKept = FALSE
  MaxBytes = 1
INVARIANTS
  NoFileOverwritten
