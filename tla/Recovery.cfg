CONSTANTS
  dev = dev
  p1 = p1
  pod = pod
  app = app
  sidecar = sidecar
  ui = ui
  retry = retry
  u1 = u1
  u2 = u2
  Context = {dev}
  NoContext = NoContext
  Caller = {ui}
  MaxConns = 2
  Port = {p1}
  NoPort = NoPort
  Client = {ui}
  MaxForwards = 1
  MaxRetries = 2
  Pod = {pod}
  Container = {app, sidecar}
  LogCaller = {ui, retry}
  MaxStreams = 2
  User = {u1, u2}
  MaxOutput = 4
  ChanCap = 2
  MaxBatch = 2
  home = home
  work = work
  nodes = nodes
  jobs1 = jobs1
  pods = pods
  File = {home, work}
  AtStart = {home, work}
  MaxWrites = 2
  Type = {nodes, jobs1, pods}
  Worker = {u1, u2}
  MaxMatches = 2
  Enough = 2
SPECIFICATION MCSpec
INVARIANTS
  LogSafe
  SessionSafe
  SearchSafe
PROPERTIES
  CancelledStops
  RecoversWhenUp
  StopEnds
  Recovers
  CancelledEnds
  SessionEnds
  WatcherFollows
  WorkersEnd
