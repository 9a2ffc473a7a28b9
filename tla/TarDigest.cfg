SPECIFICATION FairSpec
CONSTANTS
  RECORD_SIZE = 2
  BUFFER_RECORDS = 2
  Word = 32
  MaxLen = 12
  Archives <- MCArchives
  Argvs <- MCArgvs
INVARIANTS
  TypeOK
  RowsOfWholeArchive
  IntactFilesFirst
  AllPassedOn
  CrashesOnlyThus
PROPERTIES
  Terminates
