CONSTANTS
  Servers = {s1, s2}
  Visitor = Visitor
  MaxFd = 3
  MaxLinks = 3
  MaxSets = 2
SPECIFICATION Spec
INVARIANTS DescriptorIsUsable StreamIsForReplica StreamIsWhole ExecutedOnce JoinIsPending
CHECK_DEADLOCK FALSE
SYMMETRY Symmetry
