\* Two players and two connections between them (each may log in on either) of
\* two workers, and two rooms: matching, cancelling, timeouts, lost and idle
\* connections, new logins and settlements in every order.
CONSTANTS
  Players = {1, 2}
  Conns = {1, 2}
  Rooms = {1, 2}
  RoomSize = 2
  Workers <- MCWorkers
  Timer <- MCTimer
  Owner <- TakenInTurn
  OneRequestEach = TRUE
SPECIFICATION Spec
INVARIANTS
  TypeOK
  ConnectionsSpeakForSessions
  SessionsNameTheirRoom
  MatchingPlayersAreQueued
\* The connections are used up in the end.
CHECK_DEADLOCK FALSE
