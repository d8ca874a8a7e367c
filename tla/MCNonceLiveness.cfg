CONSTANTS
  Caller = {c1, c2}
  Node = {n1}
  MaxWaits = 1
  MaxRetries = 0
SPECIFICATION FairNonceSpec
PROPERTY AnsweredOrHung
\* every caller ends with a hash or an error
CHECK_DEADLOCK FALSE
