\* Inquiry results, at the real capacity of the channels, while a client asks
\* for a name.
SPECIFICATION Spec
CONSTANTS
  a1 = a1  a2 = a2  c1 = c1  c2 = c2
  Addr = {a1}
  Handle = {1}
  NoAddr = NoAddr
  NoHandle = 0
  Client = {c1}
  Impatient = {}
  Requests <- DiscoverOrName
  EventKinds <- DiscoveryEvents
  MaxChannels = 8
  MaxDevices = 2
  MaxAclConnections = 2
  MaxBatch = 8
  MaxEvents = 6
  MaxRequests = 2
INVARIANTS
  NoCircularWait
CHECK_DEADLOCK FALSE
