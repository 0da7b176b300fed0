SPECIFICATION Spec
CONSTANTS
  Sockets = {s1, s2}
  NULL = NULL
  Workers = {w1, w2}
  Reusable = FALSE
  UserSpan = 8
  ClientPackets = {"CS_REQUEST_VERSION", "CS_DISPOSE", "CS_SIGNIN", "CS_CHAT"}
  Partings = {"fin", "rst"}
  Faults = TRUE
  MaxPackets = 1
  MaxConnections = 2
SYMMETRY Symmetry
INVARIANTS
  TypeOK
  AcceptSingle
  SessionMutex
  OneOwner
  AcceptsOn
  CountsBalance
PROPERTIES
  ReleasedByOwner
  SocketUnderLock
\* A server whose acceptor or locks are lost really stops.
CHECK_DEADLOCK FALSE
