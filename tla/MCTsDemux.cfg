\* Video or metadata, frames larger than the buffer among them, the last of
\* four of one packet, under loss, duplication and reordering.
CONSTANTS
  CCMod = 4
  bufLen = 2
  MaxLen = 3
  MaxSent = 4
  MaxFaults = 3
  MaxBurst = 1
SPECIFICATION Spec
INVARIANTS
  TypeOK
  DeliveredIsIntact
  CalmFramesArrive
PROPERTIES
  FramesInOrder
