SPECIFICATION Spec
CONSTANTS
  Workers = {w1, w2}
  Messages = {1, 2}
  Events = {1}
  Unknown = Unknown
  EventOf <- OneEvent
  Broken = {2}
  Undecodable = {}
  claim1 = claim1
  claim2 = claim2
  Claims = {claim1, claim2}
  Forbidden = {}
  FlagClaims = {claim1, claim2}
  ctx1 = ctx1
  ctx2 = ctx2
  Contexts = {ctx1, ctx2}
  FlagContexts = {ctx1}
  Calls = {1, 2}
  storyA = storyA
  storyB = storyB
  Stories = {storyA, storyB}
  StoryOf <- StoryByClaim
  None = None
  BatchSize = 1
  MaxDeliver = 2
  ScanLimit = 2
  HourLength = 1
  MaxClock = 0
SYMMETRY WorkerSymmetry
INVARIANTS
  TypeOK
  AcksAreJustified
  PointersResolve
  SuccessIsComplete
  ConflictsAreEarly
PROPERTIES
  ImplementsContract
  ServesRehydration
CHECK_DEADLOCK FALSE
