SPECIFICATION Spec
CONSTANTS
  a1 = a1
  a2 = a2
  Pieces = {a1, a2}
  Editors = {w1, w2}
  MaxRequests = 2
  MaxFields = 1
  PhotoIds = {a1, a2, a3}
  Viewers = {w1, w2}
  MaxShots = 5
  Contents = {a1, a2}
  Uploads = {u1, u2}
  Importers = {w1, w2}
  MaxRows = 2
  MaxImports = 2
  Items = {a1, a2}
  Documents = {u1, u2}
  Clients = {w1, w2}
  MaxMess = 1
SYMMETRY Alike
INVARIANTS ImportedOnce NothingLeftBehind
PROPERTIES DerivedInStep PrimaryKept NothingLeftOut HeldIsKept
CHECK_DEADLOCK FALSE
