\* Two requests of the tab and one of another share a ring of three, so one that
\* redirects pushes another out.  One tick stands for the poll interval, the stall
\* threshold and the reserve alike, the window and maxWait are three of them,
\* so every phase can be the one that ends the check; a budget of 0 or 1 leaves
\* nothing to hold with, one of 4 all of it.  Two navigations of the tab: one it
\* is on its way to, one that replaces it.
CONSTANTS
  Requests = {a, b, x}
  Mine = {a, b}
  Critical = {a}
  MaxEntries = 3
  Window = 3
  MaxHops = 2
  MaxTime = 7
  Poll = 1
  Stall = 1
  MaxWait = 3
  VisualMax = 2
  Reserve = 1
  Margin = 1
  Budgets = {0, 1, 3, 4}
  Timeouts = {0, 3, 9}
  LastStart = 3
  MaxNavs = 2
\* Every request is over, the command is answered and the clock stands at its bound.
CHECK_DEADLOCK FALSE
SPECIFICATION HoldSpec
INVARIANTS
  IdleSound
  HungGivenUp
  InTime
  NothingMissed
