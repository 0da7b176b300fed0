SPECIFICATION FairSpec
CONSTANTS
  Sockets = {s1, s2}
  NULL = NULL
  Workers = {w1, w2}
  Reusable = FALSE
  UserSpan = 8
  ClientPackets = {"CS_SIGNIN"}
  Partings = {}
  Faults = FALSE
  MaxPackets = 1
  MaxConnections = 1
PROPERTY
  LoginAnswered
\* A server whose acceptor or locks are lost really stops.
CHECK_DEADLOCK FALSE
