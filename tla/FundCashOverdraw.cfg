\* Two different expenses that each fit the fund, at the same time.
SPECIFICATION Spec
CONSTANTS
  main = main  side = side  e1 = e1  e2 = e2  e3 = e3  pay1 = pay1  pay2 = pay2
  k1 = k1  k2 = k2
  DefaultFund = main
  NoExpense = NoExpense
  Body <- RetryBody
  Funds = {main}
  OpeningBalances = {2}
  ExpenseRequests = {e1, e3}
  VoidRequests = {}
  PaymentRequests = {}
  PaymentBody <- MainPayments
CHECK_DEADLOCK FALSE
PROPERTIES ExpenseNeverOverdraws
