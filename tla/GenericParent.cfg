CONSTANTS
  USIZE = 128
  U32_RANGE = 16
  WORD = 1
  TYPE_LEN = 2
  KIND_AT = 1
  TYPE_COUNT = 3
  TD_STRIDE = 3
  NAME_AT = 0
  PARENT_AT = 1
  FLAGS_AT = 2
  NAME_BIAS = 3
  PARENT_BIAS = 2
  INTERFACE = 1
  ABSTRACT = 2
  SEALED = 4
  TYPEARR = 1
  Texts <- MCTexts
  Long = {"Long"}
  ClassBodies <- MCClassBodies
  ClassBases = {0}
  TypeArrays <- MCTypeArrays
  Lists <- MCLists
SPECIFICATION ClassSpec
INVARIANT GenericParentNamed
CHECK_DEADLOCK FALSE
