SPECIFICATION FairSpec
CONSTANTS
  rent = rent
  Profile = {rent}
  NoProfile = NoProfile
  AutoSend = {rent}
  Limit <- MCLimit
  LastDue <- MCLastDue
  EditForm <- MCEditForm
  Job = {j}
  Clerk = {c}
  MaxPeriod = 2
  MaxFaults = 1
  MaxEdits = 1
  MaxManual = 1
INVARIANTS BilledAsDue InvoicesAreKept
PROPERTY CaughtUp
CHECK_DEADLOCK FALSE
