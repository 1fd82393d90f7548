SPECIFICATION FairSpec
CONSTANTS
  Pids = {w1, w2}
  CpuCount = 1
  Clients = {c1}
  MaxDeaths = 1
  MaxRefusals = 1
  MaxForkFailures = 0
PROPERTY ListensForever
CHECK_DEADLOCK FALSE
