SPECIFICATION Spec
CONSTANTS
  Handlers = {h1, h2}
  Browsers = {b1, b2}
  MaxSessions = 2
  MaxLive = 1
  MaxStarts = 2
  Supplied = TRUE
  MaxLinks = 1
  MaxFlows = 1
  Attempters = {h1, h2}
  Names = {u1}
  Addresses = {a1, a2}
  Rows = {b1, b2}
  FreeTries <- FreeOfKind
  Window = 3
  Cap = 2
  MaxKeys = 3
  Minute = 1
  PerMinute = 1
  MaxFailures = 1
  MaxResets = 1
SYMMETRY Alike
INVARIANTS FreshIsOwn WaysOut FlowOnce DeviceTries
PROPERTIES Paced
CONSTRAINT Apart
CHECK_DEADLOCK FALSE
