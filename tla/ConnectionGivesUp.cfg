SPECIFICATION ConnectionFair
CONSTANTS
  a = a
  b = b
  Cluster = {a, b}
  None = None
  MaxConnects = 2
  MaxLoads = 1
  MaxAttempts = 5
PROPERTIES GivesUpAfterMax
CHECK_DEADLOCK FALSE
