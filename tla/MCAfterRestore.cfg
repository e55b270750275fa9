SPECIFICATION Spec
CONSTANTS
  OwnerLinks = {o1}
  ArchiveLinks = {x}
  Putters = {p}
  Faults = {}
  MaxFailures = 2
  MaxCrashes = 1
  MaxReplaced = 2
  MaxPuts = 1
  one = one
  other = other
  Files <- MCFiles
  Before <- MCBefore
  Brought <- MCBrought
  Passes = {p, q}
  NoFile = NoFile
  MaxRestores = 1
  MaxStops = 1
  MaxParts = 5
  MaxChunks = 3
  Pieces = {1, 2}
  Links = {l1}
  Readers = {r1, r2}
  MaxLinks = 1
  Slots = 1
  MaxEdits = 2
SYMMETRY Alike
INVARIANTS ArchiveLinksClosed RevokedStaysRevoked  MarkerMeansClean DeletedStaysDeleted NothingBeside CleanShown
PROPERTIES OnlyShared
CHECK_DEADLOCK FALSE
