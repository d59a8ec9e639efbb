SPECIFICATION Spec
CONSTANTS
  ALIGN_SIZE = 2
  SIZE_T = 1024
  SL_INDEX_COUNT_LOG2 = 2
  FL_INDEX_MAX = 4
  Pools <- TwoPools
  Requests = {0, 1, 9, 17}
  Aligns = {4}
  Values = {7}
  MaxHeld = 3
INVARIANTS AssertsHold ListsMatchMemory 
