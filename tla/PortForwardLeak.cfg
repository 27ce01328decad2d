CONSTANTS
  p1 = p1
  ui = ui
  NoPort = NoPort
  Port = {p1}
  Client = {ui}
  MaxForwards = 1
  MaxRetries = 2
SPECIFICATION ForwardSpec
INVARIANT EndedServesNothing
