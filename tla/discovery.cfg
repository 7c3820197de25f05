\* One client starts and stops discovery, asks for names and may drop its calls,
\* while inquiry events arrive; the command channel holds two commands, so hci is
\* often held back.  The system stops when the bounds are used up.
SPECIFICATION Spec
CONSTANTS
  a1 = a1  a2 = a2  c1 = c1  c2 = c2
  Addr = {a1}
  Handle = {1}
  NoAddr = NoAddr
  NoHandle = 0
  Client = {c1}
  Impatient = {c1}
  Requests <- DiscoveryRequests
  EventKinds <- NameOrInquiryEvents
  MaxChannels = 2
  MaxDevices = 1
  MaxAclConnections = 1
  MaxBatch = 8
  MaxEvents = 4
  MaxRequests = 2
INVARIANTS
  TypeOK
  ExecExclusive
  DiscoveryTracked
PROPERTIES
  ExecUndisturbed
  PipelineSpec
CHECK_DEADLOCK FALSE
