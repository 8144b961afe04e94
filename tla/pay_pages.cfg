SPECIFICATION Spec
CONSTANTS
  Ours = {m}
  Theirs = {p}
  None = None
  MaxCheckouts = 2
  MaxLoads = 2
CHECK_DEADLOCK FALSE
INVARIANTS ListIsCurrent PayeeShown ReportIsTrue PaidOnce
PROPERTIES QrStays
