CONSTANTS
  TYPE_COUNT = 4
  U32_MAX = 6
  SortDedup <- MCSortDedup
  MAX_ROWS = 3
  MAX_INDEX = 3
  Row <- MCRow
  USIZE = 256
  U32_RANGE = 32
  WORD = 4
  TYPE_LEN = 2
  KIND_AT = 1
  BYTE = 2
  MAX_LEN = 3
  Constants <- MCConstants
  TEN = 2
  SIG = 4
  MIN_EXP <- MCMinExp
  Exps <- MCExps
SPECIFICATION TablesSpec
INVARIANTS
  CountsTypeOK
  RecoversLayout
  OneStartPerMethod
  NoIndexWrap
  ScanTypeOK
  DefaultsAreLongestTable
  LiteralIsTheBytes
  NoneIfAbsent
  OneText
  ReadsBack
PROPERTIES
  NoDefaultReplaced
CHECK_DEADLOCK FALSE
