SPECIFICATION Spec
CONSTANTS
  p1 = p1
  p2 = p2
  a1 = a1
  a2 = a2
  noId = noId
  noEvent = noEvent
  NoId = noId
  NoEvent = noEvent
  Procs = {p1, p2}
  Args = {a1, a2}
  Requests <- MCName
  Noise <- MCNone
  CallerFilters <- MCNone
  Faults = {"restore"}
  Timeout = 0
  MaxCalls = 1
  QueueLen = 2
  MaxClockBack = 0
CHECK_DEADLOCK FALSE
INVARIANTS
  AnswerMatches
  NoLostAnswer
  VerdictIsControllers
