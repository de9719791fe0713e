\* Two units charged by the same batches on two funds, one of which may be
\* closed; two late-fee requests in flight and one payment.
SPECIFICATION Spec
CONSTANTS
  u1 = u1  u2 = u2  f1 = f1  f2 = f2  p1 = p1  p2 = p2  p3 = p3  s1 = s1
  NoSeries = NoSeries
  NoItem = NoItem
  Units = {u1, u2}
  Funds = {f1, f2}
  Batches = {1, 2}
  Payments = {p1}
  Slots = {1, 2}
  ChargeRequests <- SharedRequests
  Amounts = {1, 3}
  ManualFlags = {TRUE}
  AdjustAmounts = {}
  OpeningTargets = {}
  FeeRequests = {r1, r2}
  ClosableFunds = {f2}
CHECK_DEADLOCK FALSE
INVARIANTS LateFeeOnce ItemsSettleOnlyWhenIssued
PROPERTIES ImplementsFundLedger
