SPECIFICATION FairSpec
CONSTANTS
  Callers = {p1, p2}
  MaxCalls = 2
  MaxEvents = 2
  PipeCap = 2
  EventCap = 1
INVARIANTS
  ReaderNeverBlocks
  OwnEventsHeard
PROPERTIES
  ImplementsRpc
  CallReturns
  BreakIsHeard
CHECK_DEADLOCK FALSE
