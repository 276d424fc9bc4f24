SPECIFICATION Spec
CONSTANTS
  Gateways <- MCGateways
  Configs <- MCConfigs
  Hosts <- MCHosts
  Width = 3
INVARIANTS
  StaysInside
  RightNetwork
  ModesAgree
PROPERTIES
  NoZoneLost
  StableChoice
CHECK_DEADLOCK FALSE
