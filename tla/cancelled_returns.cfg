SPECIFICATION Spec
CONSTANTS
  o1 = o1 o2 = o2 q1 = q1 m1 = m1 k1 = k1 k2 = k2 s1 = s1
  None = None
  Obligations = {o1, o2}
  Payables = {}
  PayeeOf <- OwnAddress
  CheckoutIds = {}
  Screens = {s1}
  RenewalWindow = 2
  Horizon = 1
  MaxPolicies = 4
  Requests = {}
  QuoteSeconds = 1
  RequestSeconds = 2
  MaxTransfers = 1
  MaxLost = 0
  Retries = FALSE
CHECK_DEADLOCK FALSE
INVARIANTS StoppedHasNoAuthority
