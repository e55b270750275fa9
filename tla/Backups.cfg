SPECIFICATION Spec
CONSTANTS
  Workers = {w1}
  Ticker = t
  MaxFiles = 2
  MaxIdentities = 2
  Interval = 2
  Retention = 1
  Keep = 1
  MaxTroubles = 1
INVARIANTS ArchivesOpen
PROPERTIES DueIsTried
CHECK_DEADLOCK FALSE
