SPECIFICATION Spec
CONSTANTS
  Workers = {w1}
  Messages = {1}
  Events = {1}
  Unknown = Unknown
  EventOf <- OneEvent
  Broken = {}
  Undecodable = {}
  claim1 = claim1
  claim2 = claim2
  Claims = {claim1, claim2}
  Forbidden = {}
  FlagClaims = {claim1, claim2}
  ctx1 = ctx1
  ctx2 = ctx2
  Contexts = {ctx1}
  FlagContexts = {ctx1}
  Calls = {1}
  storyA = storyA
  storyB = storyB
  Stories = {storyA, storyB}
  StoryOf <- StoryByClaim
  None = None
  BatchSize = 1
  MaxDeliver = 2
  ScanLimit = 2
  HourLength = 1
  MaxClock = 0
INVARIANTS
  OneMemberPerEvent
CHECK_DEADLOCK FALSE
