SPECIFICATION Spec
SYMMETRY Same
CONSTANTS
  h1 = h1
  h2 = h2
  r1 = r1
  r2 = r2
  Handle = {h1, h2}
  RemoteCid = {r1, r2}
  NoCid = NoCid
  FirstCid = 1
  LastCid = 3
  MaxChannels = 2
  MaxPending = 2
  MaxIdentifier = 3
  Deferring = FALSE
  MaxSteps = 6
INVARIANTS
  TypeOK
  EndsAgree
  AskedIsPending
PROPERTY AnswersOwnChannel
CHECK_DEADLOCK FALSE
