SPECIFICATION Spec
CONSTANTS
  Workers = {w1}
  Messages = {1, 2}
  Events = {1, 2}
  Unknown = Unknown
  EventOf <- OwnEvent
  Broken = {}
  Undecodable = {}
  claim1 = claim1
  claim2 = claim2
  Claims = {claim1}
  Forbidden = {}
  FlagClaims = {claim1}
  ctx1 = ctx1
  ctx2 = ctx2
  Contexts = {ctx1}
  FlagContexts = {}
  Calls = {1}
  storyA = storyA
  storyB = storyB
  Stories = {storyA}
  StoryOf <- OneStory
  None = None
  BatchSize = 2
  MaxDeliver = 2
  ScanLimit = 2
  HourLength = 1
  MaxClock = 0
INVARIANTS
  PreparedIsRetried
CHECK_DEADLOCK FALSE
