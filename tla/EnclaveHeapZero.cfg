SPECIFICATION Spec
CONSTANTS
  MmapSize = 8
  BrkSize = 4
  BrkArea = 8
  BrkStart = 2
  Page = 2
  Word = 64
  Sizes = {1, 2, 3}
  HeapSizes = {2, 4}
  Contents <- Any
  LeftBehind <- Any
  MaxStep = 3
INVARIANT LiveDisjoint
