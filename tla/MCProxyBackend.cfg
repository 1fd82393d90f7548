SPECIFICATION Spec

CONSTANTS
  Requests = {r1, r2, r3}
  Socks = {s1, s2}
  NoReq = NoReq
  NoSock = NoSock
  Whats <- MCWhats
  Timeouts <- MCTimeouts
  SocksPerTransfer = 1

SYMMETRY MCSymmetry

INVARIANTS
  TypeOK
  LinksAgree
  NoDanglingProxy
  RetiredLeftLibcurl
  PolledAsAsked
  DispatchMatchesSockfd
  TimeoutNotLost

CHECK_DEADLOCK FALSE

PROPERTY ImplementsLifecycle
