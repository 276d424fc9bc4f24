SPECIFICATION FairSpec
CONSTANTS
  Tunnels = {v1}
  Window = {js}
  TrayMenu = {tray}
  Ops = {"toggle", "all", "none", "switch", "save", "quit"}
  MaxConns = 2
  MaxCalls = 2
  MaxStarts = 1
  MaxRestarts = 1
INVARIANTS
  NoLeakedConnection
  WindowShowsTunnels
PROPERTIES
  BrokenIsForgotten
CHECK_DEADLOCK FALSE
