SPECIFICATION Spec
CONSTANTS
  root = root
  copy = copy
  Sessions <- MCSessions
  Root = root
  MaxSeq = 6
  MaxEvents = 8
  MaxCalls = 2
  Compacting = FALSE
PROPERTY ForkKeepsCallsWhole
CHECK_DEADLOCK FALSE
