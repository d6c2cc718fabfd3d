\* One frame that loads two documents in three lives of the watch, with pages the
\* watch wants, wants as well, and does not want; one wait for it or for any frame.
CONSTANTS
  ChildFrames = {f}
  Urls = {page, form, other}
  Matching = {page, form}
  Waits = {w}
  Any = Any
  MaxDocs = 2
  MaxGen = 3
\* Documents and watches are bounded: nothing is left to do.
CHECK_DEADLOCK FALSE
SPECIFICATION FairSpec
INVARIANTS
  EntriesExact
  NoneMissed
PROPERTIES
  WaitsEnd
