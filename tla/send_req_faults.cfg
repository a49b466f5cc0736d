SPECIFICATION FairSpec
CONSTANTS
  p1 = p1
  p2 = p2
  a1 = a1
  a2 = a2
  noId = noId
  noEvent = noEvent
  NoId = noId
  NoEvent = noEvent
  Procs = {p1}
  Args = {a1}
  Requests <- MCLink
  Noise <- MCLost
  CallerFilters <- MCFilters
  Faults = {"filter", "write", "select", "read"}
  Timeout = 1
  MaxCalls = 2
  QueueLen = 2
  MaxClockBack = 1
CHECK_DEADLOCK FALSE
INVARIANTS
  TypeOK
  FilterRestored
  NoStaleAnswer
PROPERTIES
  KeepsPromise
  KeepsExchange
  CallReturns
