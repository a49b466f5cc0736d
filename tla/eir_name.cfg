SPECIFICATION Spec
CONSTANTS
  Byte = {0, 1, 2, 3, 8, 9}
  MaxLen = 5
  output_name_len = 1
CHECK_DEADLOCK FALSE
INVARIANTS
  TypeOK
  FindsFirstName
  StaysInReport
