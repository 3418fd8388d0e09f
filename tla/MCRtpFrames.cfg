\* JPEG or H264 under loss, duplication, reordering, packets of other kinds and
\* long pauses, frames larger than the buffer among them.
CONSTANTS
  b1 = b1
  b2 = b2
  NULL = NULL
  Buffers = {b1, b2}
  Codecs = {"JPEG", "H264"}
  SeqMod = 4
  mayStall = TRUE
  maxBufferLen = 3
  MaxLen = 3
  MaxSent = 3
  MaxFaults = 3
  MaxBurst = 1
SPECIFICATION Spec
SYMMETRY Symmetry
INVARIANTS
  TypeOK
  IntactUnlessSplit
  CalmFramesArrive
