SPECIFICATION Spec
CONSTANTS
  u1 = u1
  u2 = u2
  s1 = s1
  s2 = s2
  a1 = a1
  any = any
  none = none
  None = none
  ANY = any
  Units = {u1, u2}
  Raw = {u2}
  Addr <- MCAddr
  Wanted = {a1}
  MaxId = 1
  Slots = {s1, s2}
  Fds = {0, 1, 2, 3}
  Nrsp = {0, 256, 300}
  Links = {1}
  Faults = {"socket", "ioctl", "malloc", "name", "getsockopt"}
SYMMETRY MCSymmetry
CHECK_DEADLOCK FALSE
INVARIANTS
  TypeOK
  NoLeak
  AddressIsSockets
  FindsStable
  InquiryFits
