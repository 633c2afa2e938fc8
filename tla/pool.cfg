SPECIFICATION FairSpec
CONSTANTS
  Client = {c1, c2, c3}
  Row = {1, 2}
  Batches = {{2}, {1, 2}}
  Crashes = TRUE
  None = None
INVARIANT NothingLeaks
PROPERTIES
  ReplacedAsAWhole
  EveryCallEnds
