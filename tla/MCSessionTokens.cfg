CONSTANTS
  phone = phone
  desk = desk
  c1 = c1
  c2 = c2
  c3 = c3
  NoConnection = NoConnection
  Clients = {phone, desk}
  Connections = {c1, c2, c3}
  Ttl = 1
  MaxTime = 3
  MaxRequests = 3
  MaxFaults = 1
SPECIFICATION Spec
SYMMETRY Symmetry
INVARIANTS
  TypeOK
  SomebodyMayReturn
PROPERTIES
  ReplacedTokensStayOut
\* Requests, faults and ticks are bounded, so behaviours end.
CHECK_DEADLOCK FALSE
