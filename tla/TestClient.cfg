SPECIFICATION FairSpec
CONSTANTS
  BufSize = 7
  HeaderSize = 2
  Payloads = {0, 1, 5}
  MaxPackets = 4
INVARIANTS
  TypeOK
  NothingLost
  NeverFull
  KeepsUp
PROPERTY
  AllHandled
\* The bounds end the run.
CHECK_DEADLOCK FALSE
