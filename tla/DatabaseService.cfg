SPECIFICATION FairSpec
CONSTANTS
  Workers = {w1, w2}
  MaxQueries = 3
INVARIANTS
  TypeOK
  PopsQueued
  InOrder
PROPERTY
  EveryQueryFreed
\* The threads stop when told to, and the program when something throws.
CHECK_DEADLOCK FALSE
