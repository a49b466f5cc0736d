SPECIFICATION Spec
CONSTANTS
  Texts <- MCTexts
  Addrs <- MCAddrs
  Memory <- MCMemory
  MapBits = {0, 1, 2, 5, 8, 9, 15, 16}
  Unknown = "OTHER"
  Commands = {0, 3, 25, 26, 27, 231}
  Features = {0, 3, 19, 20, 23, 63}
  NameLength <- MCNameLength
  Widths = {0, 2, 3, 5, 8, 12, 40}
  Types = {0, 2, 4, 31, 36, 255}
  Events = {0, 14, 31, 32, 62, 254}
  Opcodes = {0, 8205}
CHECK_DEADLOCK FALSE
INVARIANTS
  AddressReadsBack
  LayoutIsPortable
  NamesReadBack
  LinesFit
  FilterIsItsSets
