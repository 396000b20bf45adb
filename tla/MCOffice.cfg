SPECIFICATION Spec
CONSTANTS
  p1 = p1
  p2 = p2
  o1 = o1
  o2 = o2
  r1 = r1
  r2 = r2
  c1 = c1
  c2 = c2
  d1 = d1
  d2 = d2
  People <- TwoPeople
  Orgs <- TwoOrgs
  Requests <- TwoRequests
  MaxJoin = 1
  MaxUpdate = 2
  Clerks <- TwoClerks
  Modules = {"pos", "plans"}
  Names = {"warranty", "bulk"}
  Models = {"retail", "custom"}
  Preset <- Presets
  Plans <- Architectures
  MaxAsk = 2
  MaxStop = 1
  Desks <- TwoDesks
  Subs = {"s1"}
  Sheets = {"t1"}
  Staff = {"ann", "meg"}
  Managers = {"meg"}
SYMMETRY Alike
INVARIANTS MembersAreSound ReferencesHold
PROPERTIES OrganizationIsKept SubscriptionsEnd
CHECK_DEADLOCK FALSE
