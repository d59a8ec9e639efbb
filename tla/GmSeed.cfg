CONSTANTS PR = 59 CB = 37 ORD = 53 GX = 1 GY = 25 WIDTH = 64
  NUMWORD = 4 LOW = 8 FIXED = 2 KLEN = 3 MaxTries = 2
  PriKeys = {5, 42} Temps = {18, 34}
  HALF = 2 NDIGITS = 2 Moduli = {193, 251}
  Digests = {0, 7, 52, 53, 63} Lengths = {1, 3, 4, 5}
  Stack <- MCStack Damaged <- MCDamaged
  Operands <- MCOperands Products <- MCProducts
  MR_ECC_STORE_N = 3 ndash = 13 SM3 <- MCSM3
  BLOCK = 8 WORD = 64 BITS = 2 HASH = 4
  Pieces = {0, 1, 3, 8, 13} MaxMessage = 70 KeyLengths = {0, 3, 8, 9}
  Seeds = {7, 8} Messages = {11, 30} Keys = {5, 42} Nonces = {18} MaxCalls = 5
SPECIFICATION GmSpec
INVARIANT SeedReachesSM2
CHECK_DEADLOCK FALSE
