\* Two clients pair with a device and its pairing events arrive; the channels
\* have their real capacity, which the bounded events cannot fill.
SPECIFICATION FairSpecKnown
CONSTANTS
  a1 = a1  a2 = a2  c1 = c1  c2 = c2
  Addr = {a1}
  Handle = {1}
  NoAddr = NoAddr
  NoHandle = 0
  Client = {c1, c2}
  Impatient = {}
  Requests <- PairingRequests
  EventKinds <- PairingEvents
  MaxChannels = 8
  MaxDevices = 2
  MaxAclConnections = 2
  MaxBatch = 8
  MaxEvents = 3
  MaxRequests = 1
PROPERTIES
  CallsAnswered
  EventsApplied
CHECK_DEADLOCK FALSE
