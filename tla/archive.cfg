SPECIFICATION FairArchive
CONSTANTS
  Header <- HeaderLine
  Line <- MCLine
  IsLong <- MCIsLong
  Anonymizer = "netblock"
  PipeCap = 2
  MaxLines = 2
INVARIANTS
  OnlyLastLineCut
  CsvComplete
  RowsMatchKernel
PROPERTIES
  ImplementsLogFile
  WriteReturns
  CloseReturns
  DescriptorsReturned
  ToolEnds
CHECK_DEADLOCK FALSE
