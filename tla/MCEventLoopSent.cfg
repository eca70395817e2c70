CONSTANTS
  Conns = {c1, c2}
  NoConn = NoConn
  MaxFd = 2
  HardLimit = 3
SPECIFICATION FairSpec
PROPERTIES ReplyIsSent
