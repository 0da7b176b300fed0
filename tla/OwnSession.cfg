SPECIFICATION Spec
CONSTANTS
  Sockets = {s1, s2}
  NULL = NULL
  Workers = {w1, w2}
  Reusable = FALSE
  UserSpan = 8
  ClientPackets = {}
  Partings = {}
  Faults = FALSE
  MaxPackets = 0
  MaxConnections = 2
SYMMETRY Symmetry
PROPERTY
  OwnSession
\* A server whose acceptor or locks are lost really stops.
CHECK_DEADLOCK FALSE
