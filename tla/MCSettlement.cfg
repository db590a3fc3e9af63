\* Two rooms for two of three players: somebody plays twice.  StartCoin = 2 and
\* a stake of 2 bring a player to no coins.
CONSTANTS
  Players = {1, 2, 3}
  NumSeats = 2
  Rooms = {1, 2}
  Workers = {w1}
  Timer = timer
  StartCoin = 2
  Stakes = {2}
  MaxFailures = 1
SPECIFICATION FairSpec
INVARIANTS
  TypeOK
  SettledOnce
  StoredCoinIsCoin
  RecordedRoomsAreDestroyed
PROPERTIES
  SettlementEnds
\* The rooms are used up in the end.
CHECK_DEADLOCK FALSE
