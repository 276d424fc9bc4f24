SPECIFICATION Spec
CONSTANTS
  Run = run
  NoOne = none
  Stoppers = {d1, d2}
  Submitters = {s1}
  Modes = {"tun", "socks5"}
  EventsCap = 1
  MaxRedirects = 1
  MaxSubmits = 2
SYMMETRY StopperSymmetry
INVARIANTS
  TypeOK
  GrantedBeforeTunnel
  NoLostWakeup
  CleanTeardown
  PanicsAreCancellations
PROPERTIES
  
  ImplementsContract
CHECK_DEADLOCK FALSE
