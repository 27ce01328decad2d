SPECIFICATION TraySpec
CONSTANTS
  a = a
  b = b
  Pod = {a, b}
  Local = Local
  Nobody = Nobody
  MaxTabs = 3
  MaxMounts = 2
CHECK_DEADLOCK FALSE
INVARIANTS RunningIsHeld
