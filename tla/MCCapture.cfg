\* An annotated capture and two plain ones: enough for an eviction while the page
\* is frozen, a second one while the first heir still clears, and a third capture.
CONSTANTS
  Captures = {a, p, q}
  Annotating = {a}
  None = None
SPECIFICATION FairSpec
INVARIANTS
  OwnImage
  OneRendezvous
PROPERTIES
  QueueMoves
