SPECIFICATION Spec
CONSTANTS
  d1 = d1
  d2 = d2
  x = x
  noDevice = noDevice
  NoDevice = noDevice
  Devices = {d1, d2}
  Others = {x}
  Handles = {0, 1}
  Faults = {"timeout", "read", "refuse", "lost", "unconnected", "rescan", "noise"}
  MaxAsked = 4
  QueueLen = 1
SYMMETRY MCSymmetry
CHECK_DEADLOCK FALSE
INVARIANTS
  TypeOK
  NoOrphan
  NoStaleHandle
PROPERTY
  EndsOwnLink
