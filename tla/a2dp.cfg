\* Any calls for two devices; stream handles come round after three.
SPECIFICATION Spec
SYMMETRY Same
CONSTANTS
  a1 = a1  a2 = a2  a3 = a3  h1 = h1  h2 = h2
  Addr = {a1, a2}
  ConnHandle = {h1, h2}
  Config = {"low"}
  NoConfig = NoConfig
  MaxEndpoints = 2
  MaxStreams = 2
  MaxConnections = 2
  MaxListed = 2
  SeidCount = 3
  HandleCount = 3
INVARIANTS
  TypeOK
  StreamsListed
PROPERTY OneDeviceTouched
