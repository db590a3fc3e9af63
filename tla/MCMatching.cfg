\* One worker and the timer, and players who need not wait for their answers.
CONSTANTS
  Players = {1, 2}
  Conns = {1, 2}
  Rooms = {1, 2}
  RoomSize = 2
  Workers <- OneWorker
  Timer <- MCTimer
  Owner <- AllOfOne
  OneRequestEach = FALSE
SPECIFICATION FairSpec
PROPERTIES
  MatchingEnds
\* The connections are used up in the end.
CHECK_DEADLOCK FALSE
