SPECIFICATION Spec
CONSTANTS
  tea = tea
  service = service
  Product = {tea, service}
  Managed = {tea}
  Price <- MCPrice
  Opening <- MCOpening
  Funds <- MCFunds
  Spend = 2
  Req = {r1, r2, r3}
  Key = {k}
  NoKey = NoKey
  Cart <- MCCart
  Tender <- MCTender
  Method = {"cash", "store_credit", "customer_balance"}
  Recount = {1}
  Ops = {"checkout", "return", "purchase", "adjust", "form", "account", "invoice"}
SYMMETRY Symmetry
INVARIANTS StockAndBalancesTold 
PROPERTY SalesAreSerial
CHECK_DEADLOCK FALSE
