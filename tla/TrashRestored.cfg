SPECIFICATION TrashSpec
CONSTANTS
  Items = {i1, i2}
  Documents = {d1}
  Clients = {c1, c2}
  MaxMess = 1
PROPERTIES RestoredStays
CHECK_DEADLOCK FALSE
