CONSTANTS
  Socks = {s1, s2}
  NoSock = null
  MaxSeq = 1
  MaxPushes = 0
SPECIFICATION FairSpec
PROPERTY
  Reconnects
CHECK_DEADLOCK FALSE
