CONSTANTS
  dev = dev
  prod = prod
  ui = ui
  quit = quit
  list = list
  panel = panel
  Context = {dev, prod}
  NoContext = NoContext
  Caller = {ui, quit}
  MaxConns = 2
  Hook = {list, panel}
  ChanCap = 1
  MaxChanges = 2
SPECIFICATION MCSpec
SYMMETRY ClusterSymmetry
INVARIANTS
  IInv
  NoOrphan
  ServedClientsAreWatched
  HelmWasConnected
  WatchSafe
  Converges
PROPERTIES
  ImplementsSessions
CHECK_DEADLOCK FALSE
