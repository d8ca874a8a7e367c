CONSTANTS
  c1 = c1
  p1 = p1
  p2 = p2
  None = None
  Client = {c1}
  Process = {p1, p2, p3}
  Row = {1, 2, 3}
  Script = {s1}
  ClientOf <- OneClient
  FirstProcess <- TwoAtWork
  MaxRuns = 1
  MaxCrashes = 1
  MaxLost = 1
SPECIFICATION FairSpec
INVARIANTS BlockerHasMarker HeldIsStopped
PROPERTIES RowsSettle QueuesConsumed
