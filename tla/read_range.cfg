SPECIFICATION Spec
CONSTANTS
  MaxLen = 5
  Files <- AllFiles
  Starts <- SomeStarts
  Ends <- SomeEnds
  Limits = {1, 2, 3, 5}
  Chunk = 2
  None = none
INVARIANTS ContentIsRange TotalIsTrue NamedLinesAreThere
CHECK_DEADLOCK FALSE
