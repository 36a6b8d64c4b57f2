SPECIFICATION FairDumpSpec
CONSTANTS
  Sockets <- FourSockets
  Faults = TRUE
INVARIANTS
  AnswerAsAssumed ForeignDiscards SocketClosed
PROPERTIES
  DumpReturns
