SPECIFICATION Spec
CONSTANTS
  BUFFER_SIZE = 2
  InputLen = 3
  Algs <- MCDefault
  Threads = 2
INVARIANT
  PassedOnWhenDone
