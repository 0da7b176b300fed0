SPECIFICATION Spec
CONSTANTS
  Sockets = {s1, s2, s3}
  NULL = NULL
  Workers = {w1, w2}
  Reusable = TRUE
  UserSpan = 8
  ClientPackets = {}
  Partings = {"rst"}
  Faults = FALSE
  MaxPackets = 0
  MaxConnections = 4
SYMMETRY Symmetry
INVARIANTS
  AcceptSingle
  SessionMutex
\* A server whose acceptor or locks are lost really stops.
CHECK_DEADLOCK FALSE
