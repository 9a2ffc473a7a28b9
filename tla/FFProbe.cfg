SPECIFICATION FairSpec
CONSTANTS
  Sizes <- MCSizes
  MaxSize = 3
  MaxSay = 3
  Room = 2
CHECK_DEADLOCK FALSE
INVARIANTS
  DigestIsOwnOutput
  StuckOnlyThus
PROPERTIES
  ModestChildrenEnd
