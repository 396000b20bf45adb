SPECIFICATION FairSpec
CONSTANTS
  rent = rent
  Profile = {rent}
  NoProfile = NoProfile
  AutoSend = {rent}
  Limit <- MCLimit
  LastDue <- MCLastDue
  EditForm <- MCEditForm
  Job = {j}
  Clerk = {c}
  MaxPeriod = 2
  MaxFaults = 1
  MaxEdits = 0
  MaxManual = 0
INVARIANT NeverBilledTwice
CHECK_DEADLOCK FALSE
