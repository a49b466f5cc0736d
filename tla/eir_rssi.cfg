SPECIFICATION Spec
CONSTANTS
  Byte = {0, 2, 9}
  MaxLen = 4
  output_name_len = 3
CHECK_DEADLOCK FALSE
INVARIANT
  NameInData
