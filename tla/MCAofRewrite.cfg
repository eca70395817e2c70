CONSTANTS
  k1 = k1
  k2 = k2
  kid1 = kid1
  kid2 = kid2
  Keys <- TwoKeys
  Lists <- ShortList
  Kids <- TwoKids
  Wide = 16
  Second = 4
  Soon = 2
  Today = 1
  MaxChanges = 2
SPECIFICATION Spec
SYMMETRY Symmetry
INVARIANTS AofIsSnapshot
CHECK_DEADLOCK FALSE
