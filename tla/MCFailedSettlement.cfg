\* One room for two players; one transaction fails.
CONSTANTS
  Players = {1, 2}
  NumSeats = 2
  Rooms = {1}
  Workers = {w1}
  Timer = timer
  StartCoin = 2
  Stakes = {2}
  MaxFailures = 1
SPECIFICATION Spec
PROPERTIES
  FailedSettlementLeavesRoom
\* The rooms are used up in the end.
CHECK_DEADLOCK FALSE
