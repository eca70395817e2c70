CONSTANTS
  Keys = {k1, k2}
  Clients = {c1, c2}
  NoClient = NoClient
  Absent = Absent
  Str = Str
  Cmds <- SomeCmds
  MaxLen = 2
  MaxWait = 2
  MaxTime = 3
SYMMETRY Alike
SPECIFICATION Spec
INVARIANTS WakeUpIsPending ReadyHasElement BlockedIsQueued WaiterIsBlocked
CHECK_DEADLOCK FALSE
