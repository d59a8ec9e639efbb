SPECIFICATION FairSpec
CONSTANTS
  Threads = {t1, t2}
  NoThread = NoThread
  DefaultPtr = 8
  DefaultSize = 8
  PageSize = 4
  WordSize = 64
  AddrLimit = 48
  Sizes <- MCSizes
  OtherMaps <- MCOtherMaps
  MaxCalls = 2
INVARIANTS GrantsDisjoint GrantsMapped MemsetInOwnMapping
PROPERTIES CallsReturn
CHECK_DEADLOCK FALSE
