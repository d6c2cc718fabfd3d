\* One request of the tab that is redirected once.
CONSTANTS
  Requests = {a, b}
  Mine = {a}
  MaxEntries = 4
  Window = 2
  MaxHops = 2
  MaxTime = 5
\* Every request is over and the clock has reached its bound: nothing is left to do.
CHECK_DEADLOCK FALSE
SPECIFICATION Spec
INVARIANTS
  PendingInFlight
