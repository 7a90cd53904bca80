SPECIFICATION Spec
CONSTANTS
  Events <- RoutedEvents
  Answers <- RoutedAnswers
  EscalateBelow = 65
  None = None
INVARIANTS
  RepairBeforeSonnet
CHECK_DEADLOCK FALSE
