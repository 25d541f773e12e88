CONSTANTS
  TYPE_COUNT = 4
  U32_MAX = 6
  SortDedup <- MCSortDedup
SPECIFICATION Spec
INVARIANTS
  CountForEveryType
CHECK_DEADLOCK FALSE
