\* Three connections: one replaced, one current, one to come.
CONSTANTS
  Requests = {r1, r2}
  Commands = {c1, c2}
  MaxAttempts = 2
  MaxPorts = 3
SPECIFICATION FairSpec
INVARIANTS
  PendingOnPort
PROPERTIES
  RepliesStayHome
  RestsExhausted
  RequestsSettle
