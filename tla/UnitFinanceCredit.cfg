\* One unit, two batches, two automatic payments, one adjustment of either kind.
SPECIFICATION Spec
CONSTANTS
  u1 = u1  u2 = u2  f1 = f1  f2 = f2  p1 = p1  p2 = p2  p3 = p3  s1 = s1
  Units = {u1}
  Funds = {f1}
  Batches = {1, 2}
  Payments = {p1, p2}
  Slots = {1, 2}
  ChargeRequests <- PlainRequests
  Amounts = {1, 3}
  ManualFlags = {TRUE, FALSE}
  AdjustAmounts <- WaiverAndDebt
  OpeningTargets <- CreditAndDebtTargets
  FeeRequests = {}
  ClosableFunds = {}
  NoSeries = NoSeries
  NoItem = NoItem
SYMMETRY PaymentSymmetry
CHECK_DEADLOCK FALSE
INVARIANTS PaidExplained NetPosition
PROPERTIES OldestDebtFirst
