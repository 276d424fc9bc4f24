SPECIFICATION Spec
CONSTANTS
  Tunnels = {v1}
  Users = {u1, u2}
  Refreshers = {r1}
  Ops = {"apply", "clear", "auto", "exit"}
  MaxServers = 2
  MaxNonce = 3
  MaxCalls = 2
  MaxChanges = 2
SYMMETRY Symmetry
INVARIANTS
  ScriptSettles
  FlagIsSetting
  SettingIsServed
  BrowserFollowsRules
CHECK_DEADLOCK FALSE
