SPECIFICATION Spec
CONSTANTS
  NameLen = 3
  SizeLen = 4
  MtimeLen = 2
  SumLen = 6
  PrefixLen = 2
  Word = 2097152
  Members <- MCMembers
  Wrong <- MCWrong
  Junk <- MCJunk
INVARIANTS
  TypeOK
  HeadersRecognised
  DamageDetected
  SizeAsWritten
  NameAsWritten
