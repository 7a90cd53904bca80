SPECIFICATION Spec
CONSTANTS
  Events <- RoutedEvents
  Answers <- RoutedAnswers
  EscalateBelow = 65
  None = None
INVARIANTS
  TypeOK
  CountsAreCalls
  AnswersAreSupported
  SupportedIsNotDropped
  SnapshotsStopAtHaiku
  BudgetIsHard
  HighRiskMeetsModel
  FlagsRestOnEvidence
  FundingFlagsAreGuarded
CHECK_DEADLOCK FALSE
