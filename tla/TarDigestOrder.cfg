SPECIFICATION Spec
CONSTANTS
  RECORD_SIZE = 2
  BUFFER_RECORDS = 2
  Word = 32
  MaxLen = 12
  Archives <- MCNames
  Argvs <- MCArgvs
INVARIANT
  RowsInCollationOrder
