\* One client connects to and disconnects from two known devices; links also
\* drop on their own, and handles are reused.
SPECIFICATION SpecKnown
CONSTANTS
  a1 = a1  a2 = a2  c1 = c1  c2 = c2
  Addr = {a1, a2}
  Handle = {1, 2}
  NoAddr = NoAddr
  NoHandle = 0
  Client = {c1}
  Impatient = {}
  Requests <- LinkRequests
  EventKinds <- LinkEvents
  MaxChannels = 2
  MaxDevices = 2
  MaxAclConnections = 2
  MaxBatch = 8
  MaxEvents = 4
  MaxRequests = 3
INVARIANTS
  ConnectionsTracked
  StateTracked
PROPERTIES
  ExecUndisturbed
  OwnAnswer
CHECK_DEADLOCK FALSE
