SPECIFICATION FairSpec
CONSTANTS
  Modes = {"tun"}
  QueueCap = 1
  MaxPackets = 2
PROPERTIES
  CloseClosesDtls
CHECK_DEADLOCK FALSE
