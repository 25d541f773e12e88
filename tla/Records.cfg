CONSTANTS
  USIZE = 128
  U32_RANGE = 16
  WORD = 1
  TYPE_LEN = 2
  KIND_AT = 1
  TYPE_COUNT = 3
  TD_STRIDE = 3
  NAME_AT = 0
  PARENT_AT = 1
  FLAGS_AT = 2
  NAME_BIAS = 3
  PARENT_BIAS = 2
  INTERFACE = 1
  ABSTRACT = 2
  SEALED = 4
  TYPEARR = 1
  Texts <- MCTexts
  Long = {"Long"}
  ClassBodies <- MCClassBodies
  ClassBases <- MCClassBases
  TypeArrays <- MCTypeArrays
  Lists <- MCLists
  FIELD_LEN = 2
  ROW_LEN = 3
  ROW_AT = 2
  LOW_BYTES = 4
  FieldBodies <- MCFieldBodies
  FieldInputs <- MCFieldInputs
  METHOD_STRIDE = 3
  RETURN_AT = 1
  COUNT_AT = 2
  PARAM_STRIDE = 1
  PTR_LEN = 1
  TYPE_CAP = 3
  MAX_METHODS = 4
  MAX_PARAMS = 2
  CODE_LEN = 4
  MethodBodies <- MCMethodBodies
  MethodImages <- MCMethodImages
  MethodInputs <- MCMethodInputs
  Subs = {"strings", "params"}
  Xors = {"table_b", "blob"}
  Strings = "strings"
  Bias <- MCBias
  Order <- MCOrder
  Words <- MCWords
  BodyLens = {0, 1, 4, 5}
  OFF_RANGE = 4
  LEN_RANGE = 6
  BLOCK = 2
  Garbled = Garbled
  DecodeBodies <- MCDecodeBodies
SPECIFICATION RecordsSpec
INVARIANTS
  RecordsTypeOK
  TableListed
  HeaderByParent
  OwnOffsets
  PanicsOnNegativesOnly
  OwnMethods
  OobIfOutside
  TextAsWritten
CHECK_DEADLOCK FALSE
