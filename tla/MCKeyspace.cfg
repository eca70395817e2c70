CONSTANTS
  Keys = {k1, k2, k3}
  Objs <- MCObjs
  NoObj = NoObj
  Never = Never
  KeyLimit = 3
  SampleSize = 5
  ReapLimit = 1
  Wide = 16
  SetObjs <- OneLiteral
  SetTtls <- PlainOrShort
  StartObjs <- NoObjs
  StartDues <- NoDues
  ExpTtls <- NoTtls
  IntMin = 0
  IntMax = 1
  Unit = 2
  StartTime = 1
  MaxTime = 2
  MaxStat = 4
SYMMETRY AnyKey
VIEW StateOnly
SPECIFICATION Spec
INVARIANTS TypeOK DeadlineHasEntry
PROPERTIES AckedWriteIsRead ChangeIsSignalled EvictedOnce ImplementsExpiringMap
