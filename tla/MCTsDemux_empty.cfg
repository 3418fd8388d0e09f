\* No faults: an empty frame of metadata is handed on. Violated.
CONSTANTS
  CCMod = 3
  bufLen = 2
  MaxLen = 2
  MaxSent = 3
  MaxFaults = 0
  MaxBurst = 0
SPECIFICATION Spec
INVARIANTS
  EmptyFramesSwallowed
