\* Every kind of input and address; the mailbox never full.
CONSTANTS
  Inputs = {"NETWORK", "MTS", "FILE"}
  Addresses = {"udp", "rtsp"}
  hmbxLen = 3
  SL_SEM_MAX_COUNT = 2
  nLoops = 2
  MaxPosts = 2
SPECIFICATION FairSpec
CHECK_DEADLOCK FALSE
INVARIANTS
  LifetimesOK
  ReceiverGone
  ImageStable
  ImageUnlocksGet
PROPERTIES
  CleanupReturns
