SPECIFICATION Spec
SYMMETRY Handles
CONSTANTS
  h1 = h1
  h2 = h2
  Handle = {h1, h2}
  Addr = {a1, a2}
  NoAddr = NoAddr
  Shape <- Shapes
  DynamicStart = 3
  MaxAclConnections = 1
  MaxAclDataSize = 8
  MaxPdus = 1
PROPERTY CompleteIsRouted
CHECK_DEADLOCK FALSE
