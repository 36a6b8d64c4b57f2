SPECIFICATION Spec
CONSTANTS
  Blocks <- OddBlocks
  NumMarshaller = 2
  MarshalCap = 1
  ReaderCap = 1
  FilePeriod = 0
  DayLength = 10
  ReportLimit = 10
  CreateMayFail = TRUE
  Anonymizer = "netblock"
  MaxLag = 0
  MaxBlocks = 3
  MaxTime = 1
INVARIANTS
  TypeOK NoUseAfterClose NoLeakedWriter WriterInCache FilesClosedWhenDone
  OneFileAtATime OnlyAnonymizedOnDisk NoDoubleOpen
  ClosingTotalsCover
PROPERTIES
  RetiredOnce
