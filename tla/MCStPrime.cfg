SPECIFICATION Spec
CHECK_DEADLOCK FALSE
CONSTANTS
  Clients <- TheClients
  MaxFaults = 1
  Rows <- TheRows
  Processes = {1, 2}
  Instances = {"p", "q"}
  RowLimit = 2
  BatchSize = 1
  MaxRuns = 2
  Grant = 1
  MinGas = 1
  Alert = 1
  HolderGrant = 1
  Payer = 1
  Stps <- TheStps
  Tokens <- TheTokens
  Slots = {1, 2}
  Amount = 1
  PageSize = 1
  Cases <- TheCases
INVARIANTS LockHasPass OneMonitorPays PaidOncePerDelivery WalkShowsAll
PROPERTIES LowIsServed TransferEnds
