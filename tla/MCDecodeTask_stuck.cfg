\* An MTS file, the mailbox full: Cleanup hangs. Violated.
CONSTANTS
  Inputs = {"MTS"}
  Addresses = {"udp"}
  hmbxLen = 2
  SL_SEM_MAX_COUNT = 2
  nLoops = 2
  MaxPosts = 2
SPECIFICATION FairSpec
CHECK_DEADLOCK FALSE
PROPERTIES
  CleanupReturns
