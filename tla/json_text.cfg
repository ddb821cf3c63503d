SPECIFICATION Spec
CONSTANTS
  NestingLimit = 2
  DefaultBufferSize = 4
  FieldSize = 10
  Names <- MCNames
  Passwds <- MCPasswds
  Contents <- MCContents
  Ids = {12}
  Alphabet <- MCAlphabet
  Stems <- MCStems
  MaxGrowth = 3
INVARIANTS
  RequestIsCurrent
  OnlyWholeMessages
  ParserInBounds
  AcceptsJson
  PrintFits
  MinifyKeepsValue
CHECK_DEADLOCK FALSE
