SPECIFICATION SecretsSpec
CONSTANTS
  Secrets = {s1, s2}
  Putters = {p1, p2}
  Faults = {"first_use"}
  MaxKeys = 2
  MaxRestores = 0
  MaxRestarts = 0
PROPERTIES KeyMadeOnce
CHECK_DEADLOCK FALSE
