CONSTANTS
  Worker = {w1, w2}
  Observer = {o1}
  MaxRetry = 2
  FirstNonce = 1
  MaxNonce = 2
  MaxScans = 1
SPECIFICATION Spec
INVARIANTS TypeOK ExclusiveRun
PROPERTY CompleteNeverFails
SYMMETRY Symmetry
\* every process may be idle with nothing left to do
CHECK_DEADLOCK FALSE
CONSTRAINT OnTime
