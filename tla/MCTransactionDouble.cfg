CONSTANTS
  Worker = {w1}
  Observer = {o1}
  MaxRetry = 2
  FirstNonce = 1
  MaxNonce = 3
  MaxScans = 0
SPECIFICATION Spec
INVARIANT DoubleTransferNeedsLoss
CONSTRAINT NothingLost
\* every process may be idle with nothing left to do
CHECK_DEADLOCK FALSE
