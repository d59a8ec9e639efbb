SPECIFICATION Spec
CONSTANTS
  Threads <- MCThreads
  Fds <- MCFds
  Eids <- MCEids
  MaxCalls = 2
CHECK_DEADLOCK FALSE
INVARIANTS ResourcesStay CallsReachOwn
 
