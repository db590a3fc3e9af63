\* Violated: an idle connection is closed and nobody is told.
CONSTANTS
  Players = {1, 2}
  Conns = {1, 2}
  Rooms = {1}
  RoomSize = 2
  Workers <- MCWorkers
  Timer <- MCTimer
  Owner <- TakenInTurn
  OneRequestEach = TRUE
SPECIFICATION Spec
INVARIANTS
  LostConnectionsAreNoticed
\* The connections are used up in the end.
CHECK_DEADLOCK FALSE
