SPECIFICATION FairSpec
CONSTANTS
  Requests = {r1, r2}
  Ticks = {hourly, refresh}
  Sessions = {s1, s2}
INVARIANTS NoBackupBeside NoLateTick
CHECK_DEADLOCK FALSE
PROPERTIES RestoreEnds
