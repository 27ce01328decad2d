CONSTANTS
  a = a
  b = b
  pod = pod
  po = po
  p = p
  Cluster = {a, b}
  None = None
  MaxConnects = 2
  MaxLoads = 1
  MaxAttempts = 5
  Entry = {a, b, c}
  Namesakes = {b, c}
  Nothing = Nothing
  MaxSent = 2
  Query = {pod, po, p}
  Short = {p}
  NoQuery = NoQuery
  MaxShells = 2
  MaxSearches = 2
  MaxCommands = 1
  Key = {a, b}
  NoKey = NoKey
  MaxPolls = 3
  MaxMisses = 3
SPECIFICATION MCSpec
INVARIANTS
  ConnectionSafe
PROPERTIES
  ConnectionComesBack
  FormsCorrect
  PaletteCorrect
  PollsCorrect
CHECK_DEADLOCK FALSE
