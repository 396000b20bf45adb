SPECIFICATION Spec
CONSTANTS
  Workers = {"w1", "w2"}
  MaxPassword = 2
  MaxLink = 2
  MaxSession = 2
  MaxSecond = 2
  Offered = {"asha", "ben"}
  Rows = {"tea", "milk"}
  MaxAsked = 2
  Orgs = {"north", "south"}
  Customers = {"asha", "ben"}
  Home <- HomeOf
  MaxVisits = 2
  MaxPosts = 2
  Models = 4
  Timeout = 4
  Wait = 1
  Budget = 6
  MaxAsks = 2
  Titles = {"n1", "n2", "n3"}
  MaxTemplates = 3
  MaxRequests = 5
  Keys = {"k1", "k2"}
  Values = {1, 2}
  Codes = {"x"}
  Files <- SomeFiles
  MaxEntries = 3
  MaxRequested = 3
INVARIANTS SessionsEnd PreviewTellsForm SentWhereMeant AssistantAnswers OneDefault ImportIsRepeatable
PROPERTIES RestoreGivesBack
CHECK_DEADLOCK FALSE
