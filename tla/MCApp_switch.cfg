SPECIFICATION FairSpec
CONSTANTS
  Tunnels = {v1}
  Window = {js}
  TrayMenu = {}
  Ops = {"switch", "save"}
  MaxConns = 1
  MaxCalls = 1
  MaxStarts = 1
  MaxRestarts = 0
PROPERTIES
  SwitchStopsTunnels
CHECK_DEADLOCK FALSE
