SPECIFICATION Spec
CONSTANTS
  Plans <- SomePlans
  Grace = 3
  WarningWindow = 2
  Thresholds = {30, 32}
  ContinuityDays = 34
  MaxAusdCost = 20
  MaxFeeAusd = 3
  Prices <- Moving
  UsualPrices <- Steady
  MovingDays = {5, 33, 35}
  Horizon = 40
  MaxAway = 1
  AnswerDays = 1
  VisitDays = {1, 36}
CHECK_DEADLOCK FALSE
INVARIANTS RowsFollowCalendar OrdinaryMonthFits AttentiveIsPaid QuietPaysBackup
PROPERTIES RenewalReaches
