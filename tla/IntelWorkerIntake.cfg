SPECIFICATION FairSpec
CONSTANTS
  Workers = {w1}
  Messages = {1, 2, 3, 4}
  Events = {1, 2}
  Unknown = Unknown
  EventOf <- SomeUnparsable
  Broken = {}
  Undecodable = {2}
  claim1 = claim1
  claim2 = claim2
  Claims = {claim1}
  Forbidden = {}
  FlagClaims = {}
  ctx1 = ctx1
  ctx2 = ctx2
  Contexts = {ctx1}
  FlagContexts = {}
  Calls = {1}
  storyA = storyA
  storyB = storyB
  Stories = {storyA}
  StoryOf <- OneStory
  None = None
  BatchSize = 1
  MaxDeliver = 2
  ScanLimit = 1
  HourLength = 2
  MaxClock = 1
INVARIANTS
  AcksAreJustified
PROPERTIES
  EveryMessageEnds
CHECK_DEADLOCK FALSE
