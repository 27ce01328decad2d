CONSTANTS
  pod = pod
  app = app
  sidecar = sidecar
  ui = ui
  retry = retry
  Pod = {pod}
  Container = {app, sidecar}
  LogCaller = {ui, retry}
  MaxStreams = 2
SPECIFICATION LogSpec
INVARIANT OneStreamPerSlot
