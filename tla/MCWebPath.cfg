CONSTANTS
  Socks = {s1}
  NoSock = null
  MaxSeq = 2
  MaxPushes = 1
SPECIFICATION FairSpec
INVARIANTS
  TypeOK
  AnswersMatchRequests
  PendingIsWaiting
  RelaysInOrder
PROPERTIES
  EveryRequestSettles
  ProxyFollowsBrowser
  UpstreamLossIsTold
\* The WebSockets are used up in the end.
CHECK_DEADLOCK FALSE
