SPECIFICATION FairSpec
CONSTANTS
  BUFFER_SIZE = 2
  InputLen = 3
  DigestBytes <- MCBytes
INVARIANTS
  TypeOK
  TextIsDigest
PROPERTIES
  RefinesPassThru
  Terminates
