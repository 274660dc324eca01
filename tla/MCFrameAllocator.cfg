CONSTANTS
  TotalPages = 12
  FirstFrame = 4
  Group = 4
SPECIFICATION Spec
INVARIANTS TypeOK HintIsFree
PROPERTY ImplementsPool
CHECK_DEADLOCK FALSE
