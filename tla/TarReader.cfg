SPECIFICATION FairReaderSpec
CONSTANTS
  RECORD_SIZE = 2
  BUFFER_RECORDS = 3
  Word = 64
  MaxLen = 13
INVARIANTS
  ReaderTypeOK
  PassedBeforeDelivered
PROPERTIES
  RefinesRecordStream
  ReaderEnds
