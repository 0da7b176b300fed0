SPECIFICATION Spec
CONSTANTS
  BufSize = 6
  LastSize = 3
  HeaderSize = 2
  Sizes = {2, 3}
  MaxPackets = 3
  MaxConnections = 1
INVARIANT
  ReturnsCompleted
\* The bounds end the run.
CHECK_DEADLOCK FALSE
