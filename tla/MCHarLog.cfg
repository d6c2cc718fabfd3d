\* A flag and a mask of two bytes each, and a counter that grows a digit at two; the
\* limits run from nothing to more than the largest log.
CONSTANTS
  Logs <- MCLogs
  Limits = {1, 3, 4, 5, 6, 7, 8, 9, 10, 12, 14, 16, 18, 24}
  Flag = 2
  Mask = 2
  Rollovers = {2, 4, 8}
\* stopHar has answered.
CHECK_DEADLOCK FALSE
SPECIFICATION LogSpec
INVARIANTS
  FitSound
  TimesSpan
