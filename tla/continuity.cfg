SPECIFICATION Spec
CONSTANTS
  o1 = o1 o2 = o2 b1 = b1 b2 = b2 s1 = s1
  None = None
  Obligations = {o1, o2}
  Payables = {}
  PayeeOf <- OwnAddress
  CheckoutIds = {}
  Screens = {s1}
  RenewalWindow = 2
  Horizon = 1
  MaxPolicies = 2
  Backups = {b1, b2}
  ContinuityDuration = 2
  MaxSetUps = 2
SYMMETRY Names
CHECK_DEADLOCK FALSE
INVARIANTS RedirectIsAuthorised AgentAuthorityKept OneBackup
