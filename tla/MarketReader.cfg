SPECIFICATION Spec
CONSTANTS
  Starts <- SparseStarts
  Bases = {5}
  Window = 1
  Radius = 1
  Lookback = 4
  StaleAfter = 3
  HourLength = 2
  ListLimit = 2
  None = None
  MaxWrites = 1
INVARIANTS
  TypeOK
  StatusIsEarned
  NoFresherWindow
  PendingIsJustified
  ExactWindowWins
CHECK_DEADLOCK FALSE
