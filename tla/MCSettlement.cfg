SPECIFICATION Spec
CONSTANTS
  NumInvoices = 2
  Total <- MCTotal
  FirstStatus = {"sent"}
  Req = {r1, r2, r3}
  Key = {k}
  NoKey = NoKey
  Amount = {1, 2}
  Mortal = {r1, r2, r3}
  RefundsWait = TRUE
SYMMETRY Symmetry
INVARIANTS PaymentsAreSound MoneyIsKept
PROPERTIES PaymentsGoForward ImplementsReceivables
CHECK_DEADLOCK FALSE
