SPECIFICATION RelayFairSpec
CONSTANTS
  Answers <- MCAnswers
INVARIANTS
  RelayTypeOK
  FinMeansComplete
  NothingLost
PROPERTIES
  ImplementsResponse
  EndIsTold
CHECK_DEADLOCK FALSE
