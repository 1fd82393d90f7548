SPECIFICATION FairSpec
CONSTANTS
  Datagrams <- MCDatagrams
  Chlos <- MCChlos
  Oversized <- MCOversized
  Empty <- MCEmpty
  RcvBuf = 3
  CmsgSpace = 2
  BatchSize = 2
  SessionsPerEvent = 1
INVARIANTS
  TypeOK
  NothingStranded
  DroppedForCause
  CountTrails
PROPERTY ChloServed
CHECK_DEADLOCK FALSE
