----------------------------- MODULE MCFundCash -----------------------------
(* Instances of FundCash for TLC: the bodies of the requests.              *)
EXTENDS FundCash

CONSTANTS main, side, e1, e2, e3, pay1, pay2, k1, k2

\* e1 and its retry e2 carry one key; e3 is another expense of the same fund.
RetryBody ==
    [r \in ExpenseRequests |->
        [fund |-> main, amount |-> IF r = e3 THEN 1 ELSE 2,
         key |-> IF r = e3 THEN k2 ELSE k1]]

MainPayments == [p \in PaymentRequests |-> [fund |-> main, amount |-> IF p = pay1 THEN 2 ELSE 1]]
SidePayments == [p \in PaymentRequests |-> [fund |-> side, amount |-> 1]]
=============================================================================
