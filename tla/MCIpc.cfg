\* Three hosts: one that crashed or closes, one that claims the path, one that
\* races with it.
CONSTANTS
  Procs = {p1, p2, p3}
  Nothing = Nothing
  Foreign = Foreign
  Outsider = TRUE
SPECIFICATION FairSocketSpec
INVARIANTS
  Reachable
PROPERTIES
  ListenReturns
