CONSTANTS
  a = a
  b = b
  main = main
  side = side
  None = None
  Item = {a, b}
  Key = {main, side}
  MaxCalls = 2
  Pod = {a, b}
  Local = Local
  Nobody = Nobody
  MaxTabs = 2
  MaxMounts = 2
  LogPod = {a, b}
  Source = {main, side}
  NoSource = NoSource
  MaxLines = 2
  MaxLogged = 3
  MaxFlying = 1
  Resizer = {main, side}
  MaxSizes = 4
SPECIFICATION MCSpec
INVARIANTS
  LogTabSafe
PROPERTIES
  PagesCorrect
  TrayCorrect
  ExecCorrect
CHECK_DEADLOCK FALSE
