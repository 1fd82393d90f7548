SPECIFICATION FairSpec

CONSTANTS
  Requests = {r1, r2}
  Socks = {s1}
  NoReq = NoReq
  NoSock = NoSock
  Whats <- MCWhats
  Timeouts <- MCTimeouts
  SocksPerTransfer = 1

PROPERTIES
  LaunchEventually
  AbortedIsRetired

CHECK_DEADLOCK FALSE
