\* One request that redirects once; a cap of one byte, below the longest body, and a
\* budget for two, which its bodies exhaust together; two recordings of the tab.
CONSTANTS
  Requests = {a}
  Cap = 1
  Budget = 2
  Chunks = {1, 2}
  Posts <- MCPosts
  MaxRecs = 2
  MaxHops = 2
  MaxSeen = 2
\* Every bound is reached: nothing is left to do.
CHECK_DEADLOCK FALSE
SPECIFICATION Spec
INVARIANTS
  FiltersReleased
  BodiesHonest
  KeptSound
