\* The permission caches over a connection that is lost and rebuilt.
CONSTANTS
  NoCluster = NoCluster
  Cluster = {prod}
  Verb = {delete}
  Asker = {ui}
SPECIFICATION PermissionsSpec
PROPERTY UsedSinceReconnected
