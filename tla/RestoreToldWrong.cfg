SPECIFICATION RestoreSpec
CONSTANTS
  Names <- MCNames
  Targets = 2
  InArchive = {1, 2}
  Previous <- MCPrevious
  Archived <- MCArchived
  UnsafeCrashes = {}
  AutoMigrate = TRUE
  MaxCrashes = 0
  MaxFailures = 0
  MaxRuns = 1
INVARIANTS NothingIsGone
CHECK_DEADLOCK FALSE
