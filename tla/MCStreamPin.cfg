CONSTANTS
  NPins = 2
  Buffers = {b1}
  Nobody = Nobody
  MaxCalls = 6
  MaxFailures = 1
SPECIFICATION FairSpec
INVARIANT TypeOK
INVARIANT NoLostWakeup
INVARIANT SamplesOK
INVARIANT RepliesMatch
INVARIANT StoppedMeansQuiet
PROPERTY CallsReturn
CHECK_DEADLOCK FALSE
