CONSTANTS
  MAX_DEPTH = 3
  TYPE_COUNT = 3
  Off = {1, 2, 3}
  Cells <- MCCells
  ShortNames <- MCShortNames
  ZeroName <- MCZeroName
  GenericClasses <- MCGenericClasses
  GenericParams <- MCGenericParams
  Overflowing = {1}
SPECIFICATION Spec
INVARIANTS
  UnreadableHasNoName
CHECK_DEADLOCK FALSE
