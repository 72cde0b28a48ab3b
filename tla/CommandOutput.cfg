SPECIFICATION FairSpec
CONSTANTS
  Streams = {stdout, stderr}
  MaxLines = 3
  Buffer = 2
INVARIANTS
  OutputComplete
  CopiersEnd
PROPERTIES
  ReturnsAfterExit
CHECK_DEADLOCK FALSE
