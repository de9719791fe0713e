\* An expense with its retry, another expense, two voids and two payments on one fund.
SPECIFICATION Spec
CONSTANTS
  main = main  side = side  e1 = e1  e2 = e2  e3 = e3  pay1 = pay1  pay2 = pay2
  k1 = k1  k2 = k2
  DefaultFund = main
  NoExpense = NoExpense
  Body <- RetryBody
  Funds = {main, side}
  OpeningBalances = {0, 3}
  ExpenseRequests = {e1, e2, e3}
  VoidRequests = {v1, v2}
  PaymentRequests = {pay1, pay2}
  PaymentBody <- MainPayments
CHECK_DEADLOCK FALSE
INVARIANTS ExpenseEntriesMatchStatus KeySpentOnce
PROPERTIES ImplementsFundLedger
