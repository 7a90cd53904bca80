SPECIFICATION Spec
CONSTANTS
  Events <- RoutedEvents
  Answers <- RoutedAnswers
  EscalateBelow = 65
  None = None
INVARIANTS
  RuleOnlyIsBlocked
CHECK_DEADLOCK FALSE
