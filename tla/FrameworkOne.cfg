SPECIFICATION FairSpec
CONSTANTS
  Sockets = {s1, s2}
  NULL = NULL
  Workers = {w1, w2}
  Reusable = FALSE
  UserSpan = 8
  ClientPackets = {"CS_REQUEST_VERSION", "CS_DISPOSE"}
  Partings = {"fin", "rst"}
  Faults = FALSE
  MaxPackets = 2
  MaxConnections = 1
INVARIANTS
  OneReceive
  GivenBackOnce
  NoneForgotten
PROPERTIES
  WorkersComeBack
  ResetCleansUp
\* A server whose acceptor or locks are lost really stops.
CHECK_DEADLOCK FALSE
