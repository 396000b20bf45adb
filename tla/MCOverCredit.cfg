SPECIFICATION CreditSpec
CONSTANTS
  NumInvoices = 1
  Total <- MCTotal
  FirstStatus = {"sent"}
  Req = {}
  Key = {}
  NoKey = NoKey
  Amount = {1, 2}
  Mortal = {}
  RefundsWait = TRUE
  Clerk = {c1, c2}
SYMMETRY Symmetry
INVARIANT AlwaysWithinInvoice
CHECK_DEADLOCK FALSE
