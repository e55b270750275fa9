SPECIFICATION RestoreSpec
CONSTANTS
  Names <- MCNames
  Targets = 2
  InArchive = {1, 2}
  Previous <- MCPrevious
  Archived <- MCArchived
  UnsafeCrashes = {"sweep"}
  AutoMigrate = TRUE
  MaxCrashes = 1
  MaxFailures = 0
  MaxRuns = 1
INVARIANTS OkMeansArchiveInPlace
CHECK_DEADLOCK FALSE
