CONSTANTS
  CAPACITY = 3
  Old <- MCOld
  Dumps <- MCDumps
SPECIFICATION Spec
INVARIANTS
  SuccessIsComplete
  FileIsPrefix
  BadInputKeepsFile
CHECK_DEADLOCK FALSE
