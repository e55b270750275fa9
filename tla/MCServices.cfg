SPECIFICATION Spec
CONSTANTS
  a1 = a1
  a2 = a2
  w1 = w1
  w2 = w2
  Priced = {a1, a2}
  Typists = {t1}
  MaxClock = 4
  IssueKinds <- Issues
  MaxIssues = 3
  MaxCandidates = 2
  Buckets = 3
  SalesWindow = 2
  MinRecent = 2
  MaxSold = 2
  Adapters = {a1, a2}
  MaxValues = 3
  LastDay = 2
  Conditions = {a1, a2}
  Watchers = {w1, w2}
  MaxNews = 5
  Names = {a1, a2}
  Ids = {i1}
  Askers = {w1, w2}
  MaxMade = 3
  MaxTroubles = 1
  Secrets = {a1, a2}
  Putters = {w1, w2}
  Faults = {}
  MaxKeys = 2
  MaxRestores = 2
  MaxRestarts = 1
  Writers = {w1, w2}
  FailedCap = 1
  KeepRows = 2
  Keep = 1
  MaxRows = 4
  MaxDays = 2
  Callers = {w1, w2}
  Window = 2
  Retry = 1
  MaxHours = 3
  KeyWriters = {w1, w2}
  MaxIdentities = 4
  Rows = {1, 2}
  Issuers = {a1, a2}
  Subjects = {s1}
  Requesters = {w1, w2}
  MaxProviders = 1
  WidgetTypes = {a1, a2}
  OptionValues = {1, 2}
  WidgetIds = {1, 2}
  MaxWidgets = 2
SYMMETRY Alike
INVARIANTS BestPriced SameChoice AskedFor PlainAtWork EnteredReadable AsOf KeyKept LinkedAtIssuer PutBack
PROPERTIES NotBuried InTurn KeptEvidence
CHECK_DEADLOCK FALSE
