\* Two rooms for two of three players: a player is matched again while the room
\* of the last game is still being destroyed.
CONSTANTS
  Players = {1, 2, 3}
  NumSeats = 2
  Rooms = {1, 2}
  Workers = {w1}
  Timer = timer
  StartCoin = 2
  Stakes = {2}
  MaxFailures = 0
SPECIFICATION Spec
INVARIANTS
  SeatedPlayersAreFound
\* The rooms are used up in the end.
CHECK_DEADLOCK FALSE
