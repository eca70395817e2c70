CONSTANT MaxFired = 3
SPECIFICATION FairShutdownSpec
INVARIANTS RoundIsWhole
PROPERTIES NoRoundAfter SignalEnds
CHECK_DEADLOCK FALSE
