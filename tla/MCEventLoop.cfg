CONSTANTS
  Conns = {c1, c2, c3}
  NoConn = NoConn
  MaxFd = 2
  HardLimit = 3
SYMMETRY AnyConn
SPECIFICATION Spec
INVARIANTS ReplyIsForPeer EventIsForOwner ReplyIsScheduled
