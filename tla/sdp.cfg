SPECIFICATION Spec
SYMMETRY Devices
CONSTANTS
  d1 = d1
  d2 = d2
  sdp = sdp
  audio = audio
  Device = {d1, d2}
  Class = {sdp, audio}
  DefaultClass = sdp
  Attribute <- Attributes
  AttributeSize <- Sizes
  MaxAttributes = 6
  MaxRecords = 2
  MaxServiceHandles = 2
  MaxResponse = 45
  FirstHandle = 1
  LastHandle = 3
  Failed = Failed
  Pattern <- Patterns
  ClassList <- ClassLists
  IdList <- IdLists
  MaxCount = {1}
  MaxBytes = {30}
  MaxSearchUuids = 1
  MaxAttributeIds = 3
  MaxPending = 2
  MaxCached = 1
  LastTransaction = 2
  MaxSteps = 5
INVARIANTS
  TypeOK
  PendingIsAwaited
  CachedHandlesMatch
  CombinedAnswerFits
PROPERTY AnswersOwnRequest
CHECK_DEADLOCK FALSE
