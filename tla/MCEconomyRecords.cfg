CONSTANTS
  Requests = {1, 2, 3}
  Ids = {1, 2, 3}
  Balances = {4}
  Cases <- AllCases
SPECIFICATION RequestsSpec
INVARIANTS PricedInItsCurrency TransfersAreWhole OneReserve WalkMissesNothing
PROPERTY StaleEntriesGo
\* the requests of a case end
CHECK_DEADLOCK FALSE
