SPECIFICATION Spec
CONSTANTS
  root = root
  copy = copy
  Sessions = {root}
  Root = root
  MaxSeq = 9
  MaxEvents = 9
  MaxCalls = 1
  Compacting = TRUE
INVARIANTS
  GoalStays
PROPERTIES
  CutsKeepCallsWhole
CHECK_DEADLOCK FALSE
