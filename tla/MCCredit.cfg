SPECIFICATION CreditSpec
CONSTANTS
  NumInvoices = 1
  Total <- MCTotal
  FirstStatus = {"sent"}
  Req = {r1}
  Key = {}
  NoKey = NoKey
  Amount = {1, 2}
  Mortal = {}
  RefundsWait = TRUE
  Clerk = {c1, c2, c3}
SYMMETRY Symmetry
INVARIANTS NotesNumberedInARow CreditKeepsBooks
CHECK_DEADLOCK FALSE
