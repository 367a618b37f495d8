SPECIFICATION Spec
CONSTANTS
  p1 = p1  p2 = p2  p3 = p3
  Paths <- MCPaths
  MaxPaths = 4
  Lists <- MCLists
  Texts <- MCTexts
  Limits = {1, 3, 4, 6}
  Changes = 1
  None = none
INVARIANTS OneBudget RefusedMeansSpent CountsAreOfPaths
SYMMETRY PathsAlike
CHECK_DEADLOCK FALSE
