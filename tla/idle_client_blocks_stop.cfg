SPECIFICATION ServerFairSpec
CONSTANTS
  c1 = c1
  c2 = c2
  Clients <- OneClient
  EventCap = 1
  BufferCap = 1
  MaxEvents = 2
PROPERTIES
  ServerStops
