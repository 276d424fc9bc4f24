SPECIFICATION LiveGatewaySpec
CONSTANTS
  Run = run
  NoOne = none
  Stoppers = {d1}
  Submitters = {s1}
  Modes = {"tun"}
  EventsCap = 1
  MaxRedirects = 0
  MaxSubmits = 1
PROPERTIES
  DisconnectTakesEffect
  TunnelUnwinds
  DisconnectReturns
CHECK_DEADLOCK FALSE
