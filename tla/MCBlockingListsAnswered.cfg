CONSTANTS
  Keys = {k1}
  Clients = {c1, c2}
  NoClient = NoClient
  Absent = Absent
  Str = Str
  Cmds <- MCCmds
  MaxLen = 2
  MaxWait = 2
  MaxTime = 3
SPECIFICATION FairSpec
PROPERTY TimeoutIsAnswered
CHECK_DEADLOCK FALSE
