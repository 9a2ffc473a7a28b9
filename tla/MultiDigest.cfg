SPECIFICATION FairSpec
CONSTANTS
  BUFFER_SIZE = 2
  InputLen = 5
  Algs <- MCThree
  Threads = 2
INVARIANTS
  TypeOK
  DigestsInStep
  SumsOfInput
PROPERTIES
  NoReaderOverrun
  RefinesPassThru
  Terminates
