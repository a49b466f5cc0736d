SPECIFICATION Spec
CONSTANTS
  p1 = p1
  p2 = p2
  a1 = a1
  a2 = a2
  noId = noId
  noEvent = noEvent
  NoId = noId
  NoEvent = noEvent
  Procs = {p1}
  Args = {a1}
  Requests <- AllRequests
  Noise <- MCNoise
  CallerFilters <- MCNone
  Faults = {"restore"}
  Timeout = 1
  MaxCalls = 1
  QueueLen = 2
  MaxClockBack = 1
CHECK_DEADLOCK FALSE
INVARIANTS
  NoLostAnswer
  VerdictIsControllers
