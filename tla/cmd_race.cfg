SPECIFICATION FairSpec
CONSTANTS
  bash = bash  child = child
  Bash = bash
  Children <- OneChild
  Streams <- BothStreams
  Limit = 2
  Chunk = 2
  PipeSize = 2
  MaxOutput = 3
  Timeout = 1
  ReapTimeout = 1
  Writes <- MCWrites
  Stalls = TRUE
  SpawnFaults = {"popen", "selector"}
  None = none
INVARIANTS TypeOK CaptureIsPrefix FlagsAreTrue NothingLeftBehind ExitCodeIsBashs InTime CutStreamsMarked
PROPERTIES NeverKillsReapedPid Returns
CHECK_DEADLOCK FALSE
