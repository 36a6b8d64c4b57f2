SPECIFICATION System
CONSTANTS
  Blocks <- Answers
  NumMarshaller = 1
  MarshalCap = 1
  ReaderCap = 1
  FilePeriod = 0
  DayLength = 1
  ReportLimit = 10
  CreateMayFail = TRUE
  Anonymizer = "netblock"
  MaxLag = 0
  MaxBlocks = 2
  MaxTime = 0
  Sockets = {1}
  FamilyOf <- JustV6
  Reps = 2
  DumpMayFail = TRUE
  MarkKept = TRUE
  MaxBytes = 0
  Clients = {1}
  EventCap = 1
  BufferCap = 1
  MaxEvents = 6
INVARIANTS
  ClientSeesPairs
PROPERTIES
  ProgramEnds Spec
