CONSTANTS
  ui = ui
  window = window
  p = p
  q = q
  a = a
  b = b
  Setter = {ui, window}
  Path = {p, q}
  Value = {a, b}
  MaxCalls = 2
  MaxEntries = 2
  Keep = 1
  MaxLog = 4
  MaxDay = 3
  Faults = {"read", "open", "append", "create", "rename", "reopen"}
  Pod = {a, b, p, q}
  MaxEvicts = 2
  Cluster = {a, b}
  NoCluster = NoCluster
  Verb = {p}
  Asker = {ui, window}
  RingSize = 3
  ChangeRecord = {a, b, p, q}
  NoRecord = NoRecord
  Tracked <- MCTracked
  MaxAsks = 2
  Favorite = {a, b, c}
  MaxRecent = 2
  MaxRecentNs = 2
SPECIFICATION MCSpec
INVARIANTS
  ConfigSafe
  AuditSafe
  SuccessIsWhole
  ToldByServing
  SettingsSafe
  FavoritesSafe
PROPERTIES
  ErrorStops
  ImplementsRecent
