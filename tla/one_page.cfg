SPECIFICATION Spec
CONSTANTS
  o1 = o1 o2 = o2 q1 = q1 m1 = m1 k1 = k1 k2 = k2 s1 = s1
  None = None
  Obligations = {o1, o2}
  Payables = {q1, m1}
  PayeeOf <- OwnAddress
  CheckoutIds = {k1, k2}
  Screens = {s1}
  RenewalWindow = 2
  Horizon = 1
  MaxPolicies = 3
  Requests = {q1}
  QuoteSeconds = 1
  RequestSeconds = 1
  MaxTransfers = 2
  MaxLost = 1
  Retries = FALSE
SYMMETRY Names
CHECK_DEADLOCK FALSE
INVARIANTS TypeOK SameRecordedPolicy GrantedIsAuthorised AuthorityIsRecorded OutcomeIsTrue NothingPaidTwice
