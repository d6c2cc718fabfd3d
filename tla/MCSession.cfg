\* A pool of two, a third tab that makes it overflow, a window of each kind, and a
\* restore that takes over from one that was given up.
CONSTANTS
  Tabs = {t1, t2, t3}
  UserWindows = {u}
  OwnWindows = {o}
  MaxTabs = 2
  MaxAttempts = 2
  QuietFaults = FALSE
  None = None
\* Attempts are bounded, and a browser may be left without a window.
CHECK_DEADLOCK FALSE
SPECIFICATION Spec
SYMMETRY Symmetry
INVARIANTS
  PoolBounded
  StorageSound
PROPERTIES
  NeverReplaced
  SurvivorKept
  UserTabsKept
