CONSTANTS
  TYPE_COUNT = 3
  U32_MAX = 6
  SortDedup <- MCSortDedup
  MAX_ROWS = 3
  MAX_INDEX = 3
  Row <- MCRow
  MAX_METHODS = 3
  Databases <- MCDatabases
  Requests <- MCRequests
SPECIFICATION Spec
INVARIANTS
  IndexInRange
PROPERTIES
  ImplementsDump
CHECK_DEADLOCK FALSE
