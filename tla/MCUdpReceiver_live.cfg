\* A socket or a file, no symmetry: what must come to an end.
CONSTANTS
  b1 = b1
  b2 = b2
  f1 = f1
  f2 = f2
  s1 = s1
  NULL = NULL
  Buffers = {b1, b2}
  Savers = {s1}
  Files = {f1, f2}
  Inputs = {TRUE, FALSE}
  MaxUnits = 1
  MaxFrames = 1
SPECIFICATION FairSpec
PROPERTIES
  CallsComplete
  EofReported
