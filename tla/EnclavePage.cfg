SPECIFICATION Spec
CONSTANTS
  NumPages = 8
  Index = {0, 1}
  Vas <- MCVas
  Outside = {o1}
  Flags = {rw}
INVARIANTS OneUse
PROPERTY ImplementsAddressSpace
CHECK_DEADLOCK FALSE
