SPECIFICATION FairSpec
CONSTANTS
  Families = {1, 2}
  None = None
  Rehydrators = {r1}
  ctx1 = ctx1
  ctx2 = ctx2
  Pending = Pending
  Unavailable = Unavailable
  Available = {ctx1, ctx2}
  Contexts = {ctx1, ctx2, Pending}
  ObservedHour <- FirstHour
  RetryAfter <- Staggered
  ExpireAt <- Expiry
  MaxPackets = 6
  HourLength = 2
  MaxClock = 3
  MaxFailures = 1
PROPERTIES
  PendingIsRevised
CHECK_DEADLOCK FALSE
