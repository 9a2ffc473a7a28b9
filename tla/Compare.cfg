SPECIFICATION Spec
CONSTANTS
  Files = {"f", "g"}
  MaxLines = 3
  Lines <- MCLines
  Argvs <- MCArgvs
INVARIANTS
  StatusIsAgreement
  MatchedByTwos
