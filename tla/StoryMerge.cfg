SPECIFICATION Spec
CONSTANTS
  w1 = w1
  w2 = w2
  day = day
  title = title
  s1 = s1
  s2 = s2
  abc = abc
  abcLower = abcLower
  Workers = {w1, w2}
  Events = {1, 2, 3, 4}
  Raw <- MCRaw
  Dates = {day}
  Titles = {title}
  Sources = {s1, s2}
  Symbols = {abc, abcLower}
  Canonical <- MCCanonical
  Claims <- MCClaims
  ScanLimit = 2
  MaxFaults = 1
SYMMETRY MCSymmetry
INVARIANTS
  TypeOK
  SourcesCarryOver
  ConflictsCarryOver
  PacketsNameTheirStory
  FlagsFollowPackets
  HealthReportsStory
  OneEventPerSegment
PROPERTIES
  ImplementsContract
CHECK_DEADLOCK FALSE
