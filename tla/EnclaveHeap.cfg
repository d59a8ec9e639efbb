SPECIFICATION FairSpec
CONSTANTS
  MmapSize = 8
  BrkSize = 4
  BrkArea = 8
  BrkStart = 2
  Page = 2
  Word = 64
  Sizes = {1, 2, 3}
  HeapSizes = {2, 4}
  Contents <- Filled
  LeftBehind <- Filled
  MaxStep = 3
INVARIANT LiveDisjoint
PROPERTY FailsOnlyWhenFull
PROPERTY MmapReturns
