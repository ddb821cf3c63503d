SPECIFICATION Spec
CONSTANTS
  NULL = NULL
  n1 = n1
  n2 = n2
  n3 = n3
  n4 = n4
  Nodes = {n1, n2, n3, n4}
  Texts = {"text", "other"}
  Keys <- MCKeys
  Fold <- MCFold
  MadeKinds = {"string", "object"}
  Rarities = {"K", "other"}
  MaxWeight = 4
  MaxBudget = 6
SYMMETRY Cells
INVARIANTS
  WellLinked
  NothingLeaks
  ListsAsNamed
  CompareIsEquality
  CopiesAreTrue
CHECK_DEADLOCK FALSE
