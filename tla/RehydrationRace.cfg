SPECIFICATION Spec
CONSTANTS
  Families = {1}
  None = None
  Rehydrators = {r1, r2}
  ctx1 = ctx1
  ctx2 = ctx2
  Pending = Pending
  Unavailable = Unavailable
  Available = {ctx1, ctx2}
  Contexts = {ctx1, ctx2, Pending}
  ObservedHour <- FirstHour
  RetryAfter <- Staggered
  ExpireAt <- Expiry
  MaxPackets = 2
  HourLength = 2
  MaxClock = 3
  MaxFailures = 2
SYMMETRY RehydratorSymmetry
INVARIANTS
  TypeOK
  OneRevision
  RevisionIsDue
  LostOnlyByFailure
  ManifestsNeverConflict
PROPERTIES
  ImplementsMarketContext
CHECK_DEADLOCK FALSE
