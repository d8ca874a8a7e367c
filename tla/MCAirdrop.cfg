CONSTANTS
  Airdrops = {1, 2}
  Cases <- Troubles
SPECIFICATION FairSpec
INVARIANTS AllotmentsBacked NeverMeansOnce
PROPERTY ServedInTheEnd
\* the airdrops end
CHECK_DEADLOCK FALSE
