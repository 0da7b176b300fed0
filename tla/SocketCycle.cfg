SPECIFICATION FairSpec
CONSTANTS
  Sockets = {s1, s2, s3}
  NULL = NULL
  Workers = {w1, w2}
  Places = {p1, p2}
  Reusable = TRUE
  MaxPool = 4
INVARIANTS
  TypeOK
  AcceptSingle
  PoolDistinct
  OnePlace
  EndpointsAgree
PROPERTIES
  ImplementsPool
  NextAcceptArmed
\* The acceptor really stops once AcceptEx is refused.
CHECK_DEADLOCK FALSE
