SPECIFICATION FairSpec
CONSTANTS
  Pids <- MCPids
  CpuCount <- MCCpuCount
  Clients = {c1, c2}
  MaxDeaths = 3
  MaxRefusals = 2
  MaxForkFailures = 2
INVARIANTS
  TypeOK
  OnePerCpu
  PortIsServed
PROPERTIES
  RestoresWorkers
  ClientsServed
CHECK_DEADLOCK FALSE
