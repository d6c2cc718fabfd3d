\* Liveness: one slot, so the second connection depends on the first leaving.
CONSTANTS
  Conns = {c1, c2}
  Ids = {i1}
  MaxConns = 1
  BadClients = {}
  None = None
SPECIFICATION FairSpec
PROPERTIES
  SettlesRequests
  ShutdownCompletes
