SPECIFICATION FairSpec
CONSTANTS
  c1 = c1  c2 = c2
  Calls <- MCCalls
  Configs <- EitherSink
  Loops = {1, 2}
  Conns = {1, 2}
  Workers = 1
  Drops = 0
  Stalling = {FALSE}
  None = none
PROPERTIES ProcessNotHeldOpen
CHECK_DEADLOCK FALSE
