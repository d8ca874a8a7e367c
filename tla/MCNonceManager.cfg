\* Two senders, two nodes, one retry of each kind.
CONSTANTS
  Caller = {c1, c2}
  Node = {n1, n2}
  MaxWaits = 1
  MaxRetries = 1
SPECIFICATION NonceSpec
SYMMETRY Symmetry
INVARIANTS TypeOK UniqueWithinEpoch SyncSeesStable
\* every caller ends with a hash or an error
CHECK_DEADLOCK FALSE
