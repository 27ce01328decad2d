CONSTANTS
  p1 = p1
  stop = stop
  wake = wake
  Port = {p1}
  NoPort = NoPort
  Client = {stop, wake}
  MaxForwards = 2
  MaxRetries = 1
SPECIFICATION MCSpec
INVARIANTS
  ForwardIInv
  ListedRuns
  EndedReleases
  SoleForwardListed
  StatusTrue
