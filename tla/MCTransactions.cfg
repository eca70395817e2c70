CONSTANTS
  Keys = {k1}
  NoObj = NoObj
  Never = Never
  a = a
  b = b
  Objs <- MCObjs
  KeyLimit = 3
  SampleSize = 5
  ReapLimit = 20
  Wide = 4
  Clients = {c1, c2}
  NoClient = NoClient
  Cmds <- MCCmds
  StartTime = 1
  MaxTime = 2
  MaxQueue = 1
SYMMETRY AnyClient
VIEW WithoutStat
SPECIFICATION Spec
INVARIANTS FlagIsExact UnflaggedIsCurrent NothingCarriedOver
