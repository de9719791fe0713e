\* Three months of one series, issued in any order, and three payments of their
\* unit, explicit or automatic, that are approved, rejected and reversed.
SPECIFICATION Spec
CONSTANTS
  u1 = u1  u2 = u2  f1 = f1  f2 = f2  p1 = p1  p2 = p2  p3 = p3  s1 = s1
  NoSeries = NoSeries
  NoItem = NoItem
  Units = {u1}
  Funds = {f1}
  Batches = {1, 2, 3}
  Payments = {p1, p2, p3}
  Slots = {}
  ChargeRequests <- MonthlyRequests
  Amounts = {2}
  ManualFlags = {TRUE}
  AdjustAmounts = {}
  OpeningTargets = {}
  FeeRequests = {}
  ClosableFunds = {}
SYMMETRY PaymentSymmetry
CHECK_DEADLOCK FALSE
INVARIANTS ReservationExclusive ReservationFollowsPayment NoPaymentRefundable
PROPERTIES MonthlyOldestFirst ReversalReopens
