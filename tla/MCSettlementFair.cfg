SPECIFICATION FairSpec
CONSTANTS
  NumInvoices = 2
  Total <- MCTotal
  FirstStatus = {"sent"}
  Req = {r1, r2}
  Key = {k}
  NoKey = NoKey
  Amount = {1, 2}
  Mortal = {}
  RefundsWait = FALSE
PROPERTIES PaymentsAreDecided BalanceCatchesUp
CHECK_DEADLOCK FALSE
