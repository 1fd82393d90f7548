SPECIFICATION Spec

CONSTANTS
  Requests = {r1}
  Socks = {s1, s2}
  NoReq = NoReq
  NoSock = NoSock
  Whats <- MCWhats
  Timeouts <- MCTimeouts
  SocksPerTransfer = 2

INVARIANTS
  DispatchMatchesSockfd

CHECK_DEADLOCK FALSE
