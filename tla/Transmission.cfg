SPECIFICATION FairSpec
CONSTANTS
  Connections = {c1, c2}
  NULL = NULL
  Workers = {w1, w2}
  MaxUsers = 2
  Lengths = {2}
  MaxSends = 3
INVARIANTS
  TypeOK
  OneHolder
  Whole
PROPERTIES
  ImplementsDelivery
  EverySendEnds
\* The bounds end the run.
CHECK_DEADLOCK FALSE
