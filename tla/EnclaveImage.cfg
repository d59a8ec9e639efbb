SPECIFICATION ImageSpec
CONSTANTS
  NumPages = 32
  Index = {0, 1, 2}
  Vas <- MCVas
  Outside = {33, 34, 35}
  Flags = {"user", "stack", "outside"}
  PtePerPage = 3
  RISCV_PGSIZE = 2
  Extra = 11
  MAX_ELF_SIZE = 9
  MAX_STACK_SIZE = 4
  MAX_UNTRUSTED_MEM_SIZE = 4
  STACK_POINT = 26
  DEFAULT_UNTRUSTED_PTR = 36
  ENCLAVE_DEFAULT_KBUFFER = 42
  Elfs <- MCElfs
INVARIANTS ImageIsElf 
CHECK_DEADLOCK FALSE
