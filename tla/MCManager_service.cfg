SPECIFICATION FairSpec
CONSTANTS
  Ids = {v1}
  Callers = {p1, p2}
  Ops = {"connect", "stop"}
  Mode = "tun"
  MaxClients = 2
  MaxStates = 2
PROPERTIES
  StopFreesTunnel
CHECK_DEADLOCK FALSE
