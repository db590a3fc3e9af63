CONSTANTS
  Ips = {ip1}
  Conns = {c1, c2, c3}
  MaxWs = 1
  MaxWsRate = 1
  MaxHttpQps = 1
  BanTime = 2
  Second = 2
  MaxTime = 2
SPECIFICATION FairSpec
INVARIANTS
  TypeOK
  SlotsAreCounted
  QpsHolds
  StoppedIsQuiet
PROPERTIES
  BansStand
  OnlyPeersDelayStop
\* The connections are used up in the end.
CHECK_DEADLOCK FALSE
