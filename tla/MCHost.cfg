\* Two connections contend for one slot with one request each, or one connection
\* has both requests in flight.  Any client may send lines the host refuses.
CONSTANTS
  Conns = {c1, c2}
  Ids = {i1, i2}
  MaxConns = 1
  BadClients = {c1, c2}
  None = None
SPECIFICATION Spec
SYMMETRY Symmetry
INVARIANTS
  TablesAgree
  AnsweredOnce
  TimersAccounted
  ServedIsQuiet
  SlotsBounded
  FlushedIsWritten
