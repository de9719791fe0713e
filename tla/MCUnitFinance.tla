--------------------------- MODULE MCUnitFinance ---------------------------
(* Instances of UnitFinance for TLC: the request bodies and small sets of   *)
(* amounts, and the symmetry of the payments (no operation orders them).   *)
EXTENDS UnitFinance, TLC

CONSTANTS u1, u2, f1, f2, p1, p2, p3, s1

PaymentSymmetry == Permutations(Payments)

Request(f, due, series, period, fee, items) ==
    [fund |-> f, due |-> due, series |-> series, period |-> period,
     lateFee |-> fee, items |-> items]

\* One unit, charges of 2 rials; a later batch may fall due earlier.
PlainRequests ==
    {Request(f1, d, NoSeries, 0, 1, [u \in Units |-> 2]) : d \in {1, 2}}

FeeRequest == {Request(f1, 1, NoSeries, 0, 1, [u \in Units |-> 2])}

\* Two units charged different amounts, on two funds; one charge has a late fee.
SharedRequests ==
    {Request(f1, 1, NoSeries, 0, 1, [u \in Units |-> IF u = u1 THEN 1 ELSE 2]),
     Request(f2, 2, NoSeries, 0, 0, [u \in Units |-> IF u = u1 THEN 2 ELSE 0])}

\* Three months of one series, which may be issued in any order.
MonthlyRequests ==
    {Request(f1, m, s1, m, 0, [u \in Units |-> 1]) : m \in 1 .. 3}

\* A waiver larger than one charge, and an added debt.
WaiverAndDebt == {-3, 1}
\* Corrections of the opening balance to a unit credit and to a debt.
CreditAndDebtTargets == {-1, 1}
=============================================================================
