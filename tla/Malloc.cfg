SPECIFICATION Spec
CONSTANTS
  BrkLimit = 262144
  MmapSize = 262144
  PTRDIFF_MAX = 1000000
  Requests = {1, 5000, 110000, 230000}
  Aligned <- Aligned64
  MaxHeld = 3
  MaxCalls = 6
INVARIANTS HeldIntact HeapWhole BinsMatchHeap FailsOnlyWhenTight
CHECK_DEADLOCK FALSE
