SPECIFICATION Spec
CONSTANTS
  Ids = {v1}
  Callers = {p1, p2}
  Ops = {"start", "stop", "replace", "startall"}
  Mode = "socks5"
  MaxClients = 2
  MaxStates = 2
SYMMETRY CallerSymmetry
INVARIANTS
  OneClientPerState
  RuleHasListener
  BridgeOfOwnClient
  ShownSettles
  StatusSettles
  NoListenerLeft
CHECK_DEADLOCK FALSE
