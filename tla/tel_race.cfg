SPECIFICATION Spec
CONSTANTS
  c1 = c1  c2 = c2
  Calls <- MCCalls
  Configs <- BothSinks
  Loops = {1, 2}
  Conns = {1, 2}
  Workers = 1
  Drops = 1
  Stalling = {FALSE}
  None = none
INVARIANTS TypeOK EarlyRecordsReachSinks OneLoop OneConnection ConnectionsClosed
SYMMETRY CallsAlike
CHECK_DEADLOCK FALSE
