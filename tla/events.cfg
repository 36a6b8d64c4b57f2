SPECIFICATION FairEventSpec
CONSTANTS
  c1 = c1
  c2 = c2
  Clients <- TwoClients
  EventCap = 2
  BufferCap = 1
  MaxEvents = 3
INVARIANTS
  EventTypeOK NothingMissed WaitCoversServe
PROPERTIES
  LeaversRemoved SenderUnblocked ServerStops
