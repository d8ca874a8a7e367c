CONSTANTS
  Worker = {w1}
  Observer = {o1, o2}
  MaxRetry = 2
  FirstNonce = 1
  MaxNonce = 1
  MaxScans = 0
SPECIFICATION FairSpec
PROPERTY QueuedSettles
\* every process may be idle with nothing left to do
CHECK_DEADLOCK FALSE
