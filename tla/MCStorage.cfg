CONSTANTS
  NumSeats = 3
  Games = {1, 2}
  StartCoin = 2
  Stakes = {1, 2}
  PoolSize = 1
  MaxCalls = 3
  MaxRestarts = 1
SPECIFICATION Spec
INVARIANTS
  TypeOK
  RecordedOnce
PROPERTIES
  ImplementsLedger
\* The calls are used up in the end.
CHECK_DEADLOCK FALSE
