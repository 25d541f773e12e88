CONSTANTS
  U32_RANGE = 18
  BODY_OFFSET = 2
  Anchors <- MCAnchors
  PTR_LEN = 2
  TYPE_LEN = 2
  KIND_OFF = 1
  CHECKED = 2
  NEEDED = 1
  Exes <- MCExes
  Dats <- MCDats
  U64_RANGE = 36
  DESC_LEN = 3
  NAME_AT = 1
  THUNKS_AT = 2
  WORD = 1
  THUNK_LEN = 2
  HINT_LEN = 1
  ORDINAL = 12
  ORDINALS = 4
  MAX_DESCS = 3
  MAX_THUNKS = 1
  ImportImages <- MCImportImages
SPECIFICATION ImageSpec
INVARIANTS
  LoadTypeOK
  TablesInFile
  LoadedAsMapped
  MappingsAgree
  BssIffNoBytes
  AllOrNothing
  PanicsAtTheTops
CHECK_DEADLOCK FALSE
