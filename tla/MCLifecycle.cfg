SPECIFICATION FairSpec
CONSTANTS
  Invoice = {i}
  Amount = {1, 2}
  Limit = 1
  Req = {r1, r2}
  Manager = {r1}
  Ops = {"create", "status", "delete", "edit", "email", "review", "pay"}
  AskedStatus = {"pending_approval", "approved", "void"}
  Mortal = {r1}
  Conflicts = 1
  MaxEntries = 1
INVARIANTS LedgerIsSound HeldIsDecided
PROPERTIES NothingIsUndone ClaimsAreCarriedOut
CHECK_DEADLOCK FALSE
