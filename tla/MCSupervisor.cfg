CONSTANTS
  p1 = p1
  p2 = p2
  p3 = p3
  NoPid = NoPid
  Pids <- MCPids
  c_nodes_used = 2
  c_devices_used = 2
  Configurations <- MCConfigurations
  MAX_RETRIES = 2
SPECIFICATION FairSpec
CHECK_DEADLOCK FALSE
INVARIANTS
  TypeOK
  NoStalePid
  Exclusive
  NothingLeftBehind
PROPERTIES
  ServerKeepsUp
  PortsServed
  BadPortsGivenUp
