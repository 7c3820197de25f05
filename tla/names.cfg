\* Two clients ask for the names of two devices at the same time.
SPECIFICATION SpecNamed
CONSTANTS
  a1 = a1  a2 = a2  c1 = c1  c2 = c2
  Addr = {a1, a2}
  Handle = {1}
  NoAddr = NoAddr
  NoHandle = 0
  Client = {c1, c2}
  Impatient = {}
  Requests <- NameRequests
  EventKinds <- NameEvents
  MaxChannels = 8
  MaxDevices = 2
  MaxAclConnections = 2
  MaxBatch = 8
  MaxEvents = 3
  MaxRequests = 1
PROPERTIES
  NameOfAddressAsked
CHECK_DEADLOCK FALSE
