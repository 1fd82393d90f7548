SPECIFICATION RelayFairSpec
CONSTANTS
  Answers <- MCChunked
PROPERTY UnlinkedIsClosed
CHECK_DEADLOCK FALSE
