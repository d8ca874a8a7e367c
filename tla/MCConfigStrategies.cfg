CONSTANTS
  Requests = {1, 2, 3, 4}
  Clients = {1, 2}
  Ids = {1, 2, 3, 4, 5, 6}
  Names = {"REGISTRAR", "ST_PRIME", "ST_PRIME_UUID", "FINALIZE", "UUID"}
  Cases <- AllCases
SPECIFICATION Spec
INVARIANTS OneChain WholeOrNothing SuccessIsRecorded
PROPERTY AddressesStay
\* the requests of a case end
CHECK_DEADLOCK FALSE
