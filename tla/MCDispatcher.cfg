\* Two state commands contend for the lock, and a read (or a probe) shares the
\* preamble with them: enough for an attempt that is shared, abandoned by one,
\* and replaced.  Safety and liveness on the same instance.
CONSTANTS
  Cmds = {s1, s2, r1}
  StateCmds = {s1, s2}
  Startup = startup
SPECIFICATION FairSpec
INVARIANTS
  Exclusive
  AttemptShared
PROPERTIES
  NoLateStart
  Fenced
  Answered
  LockPasses
