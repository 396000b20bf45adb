SPECIFICATION FairSpec
CONSTANTS
  t1 = t1
  t2 = t2
  s1 = s1
  s2 = s2
  Tills <- TwoTills
  Shoppers <- Ann
  Stock = 2
  MaxQty = 2
  MaxConfirm = 2
  MaxPark = 1
  MaxFault = 2
  Loops = {1, 2}
INVARIANTS EachConfirmationSoldOnce ReceiptMeansSale OneSalePerShopper
PROPERTY SyncedIsPosted
CHECK_DEADLOCK FALSE
