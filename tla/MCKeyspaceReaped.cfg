CONSTANTS
  Keys = {k1, k2}
  Objs <- FewObjs
  NoObj = NoObj
  Never = Never
  KeyLimit = 3
  SampleSize = 5
  ReapLimit = 1
  Wide = 16
  SetObjs <- OneObj
  SetTtls <- PlainOrShort
  StartObjs <- OneList
  StartDues <- Soon
  ExpTtls <- ExpireSome
  IntMin = 0
  IntMax = 1
  Unit = 2
  StartTime = 1
  MaxTime = 3
  MaxStat = 2
SPECIFICATION FairSpec
PROPERTIES LapsedIsReaped ImplementsExpiringMap
