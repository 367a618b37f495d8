SPECIFICATION Spec
CONSTANTS
  TextLen = 5
  OldLen = 3
  MaxOld = 2
  MaxWindows = 2
  PathLen = 4
  Disks <- PathTrees
  Paths <- SomePaths
  Euid = "me"
  MaxHops = 2
  MaxDepth = 2
  MaxTokens = 12
  Parts = {"a","b","r","..","~"}
  Names <- ListNames
  Asked <- ListAsked
  Nodes <- ListNodes
  Spots <- ListSpots
  Starts <- ListTrees
  Depths = {0, 1, 2, 3}
  Changes = 2
INVARIANTS OtherMeansNotGit
CHECK_DEADLOCK FALSE
