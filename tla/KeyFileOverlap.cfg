SPECIFICATION KeyFileSpec
CONSTANTS
  KeyWriters = {w1, w2}
  MaxIdentities = 3
INVARIANTS KeyNeverLost
CHECK_DEADLOCK FALSE
