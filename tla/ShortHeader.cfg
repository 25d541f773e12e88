CONSTANTS
  MAGIC_LEN = 2
  HDR_LEN = 4
  DOC_LEN = 3
  BODY_LEN = 2
  Oracle = {0}
  Images <- MCImages
SPECIFICATION HeaderSpec
INVARIANTS
  ShortHeaderFound
CHECK_DEADLOCK FALSE
