SPECIFICATION Spec
CONSTANTS
  BufSize = 6
  LastSize = 2
  HeaderSize = 2
  Sizes = {2, 3}
  MaxPackets = 3
  MaxConnections = 2
INVARIANTS
  TypeOK
  Window
  Reassembles
\* The bounds end the run.
CHECK_DEADLOCK FALSE
