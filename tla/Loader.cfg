CONSTANTS
  KeySet = {0, 1, 2}
  MaxLen = 5
  W = 3
  WordBits = 4
  PgSize = 2
  PhysBase = 12
  FileLen = 7
  NameMax = 2
  StackSizes = {20, 24, 28, 32, 36}
SPECIFICATION Spec
INVARIANTS NameOpened
CHECK_DEADLOCK FALSE
