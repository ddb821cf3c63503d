SPECIFICATION Spec
CONSTANTS
  NULL = NULL
  NumKeys = 4
  Keys <- MCKeys
  Values = {v1, v2}
  MaxBuckets = 16
  InitialBuckets = 2
  CapacityThresh = 1
  HashFunctions <- MCHashFunctions
  Ranks <- MCRanks
INVARIANTS
  Intact
  ChainsBounded
  SelectsChosen
PROPERTIES
  IsTheFunctionOfIntHash
  ImplementsOrderedHash
