SPECIFICATION Spec
CONSTANTS
  NumCycles = 1
  MaxRefreshes = 2
  MaxAnswers = 1
CHECK_DEADLOCK FALSE
INVARIANTS WayForward BalanceIsOfTheWallet AnswerIsSeen
PROPERTIES PageSurvivesRefresh
