SPECIFICATION Spec
CONSTANTS
  Pids <- MCPids
  CpuCount <- MCCpuCount
  Clients = {c1, c2}
  MaxDeaths = 0
  MaxRefusals = 0
  MaxForkFailures = 0
INVARIANT UsesMultipleCores
CHECK_DEADLOCK FALSE
