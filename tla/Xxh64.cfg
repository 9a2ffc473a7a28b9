SPECIFICATION Spec
CONSTANTS
  STRIPE = 4
  MaxPiece = 9
  MaxLen = 20
INVARIANTS
  TypeOK
  StreamIsOneShot
