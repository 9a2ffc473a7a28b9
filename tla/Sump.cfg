SPECIFICATION Spec
CONSTANTS
  Names = {"a", "b"}
  Size = 2
  Argvs <- MCArgvs
INVARIANTS
  OthersUntouched
  SumsOfNamedInput
  LinesNameTheirSums
  FilesHoldResults
