SPECIFICATION Spec
CONSTANTS
  c1 = c1 c2 = c2 c3 = c3 o1 = o1 o2 = o2 i1 = i1 i2 = i2 i3 = i3
  t1 = t1 t2 = t2 t3 = t3 r1 = r1 r2 = r2 u1 = u1 u2 = u2
  None = None
  Cycles = {c1}
  Obligations = {o1}
  ObligationOf <- OneObligation
  ReservationIds = {i1, i2}
  TransferIds = {t1, t2}
  LastPeriod = 1
  Prices <- PriceSpread
  Cap <- CapFive
  Runners = {r1}
  Clients = {u1, u2}
  MaxAusdCost = 2
  MaxFeeAusd = 0
  Balances = {3}
  Linked = {o1}
  Allowlisted = {o1}
  MaxCrashes = 0
  MaxLost = 0
SYMMETRY Names
INVARIANT AtMostOneTransfer
