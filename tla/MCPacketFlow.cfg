SPECIFICATION Spec
CONSTANTS
  Modes = {"tun", "socks5"}
  QueueCap = 1
  MaxPackets = 2
INVARIANTS
  PacketsKept
  InOrder
  NobodyStuck
  
CHECK_DEADLOCK FALSE
