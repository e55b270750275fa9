SPECIFICATION FairRestoreSpec
CONSTANTS
  Names <- MCNames
  Targets = 2
  InArchive = {1, 2}
  Previous <- MCPrevious
  Archived <- MCArchived
  UnsafeCrashes = {}
  AutoMigrate = TRUE
  MaxCrashes = 2
  MaxFailures = 3
  MaxRuns = 2
INVARIANTS KeptUntilReplaced UndoneMeansPrevious
PROPERTIES Contract Reopens
CHECK_DEADLOCK FALSE
