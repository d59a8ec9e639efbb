SPECIFICATION Spec
CONSTANTS
  BLOCK = 2
  HEADER = 3
  U8 = 4
  UINT32_MAX = 17
  TextLens <- MCTextLens
  MacLens <- MCMacLens
  Builds <- MCBuilds
  MaxSeals = 2
  MaxBytes = 3
  MaxDraws = 3
CHECK_DEADLOCK FALSE
INVARIANTS    CiphertextIsOcb
