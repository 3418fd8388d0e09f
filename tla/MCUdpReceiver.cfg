\* A socket or a file, three buffers, two savers, four frames.
CONSTANTS
  b1 = b1
  b2 = b2
  b3 = b3
  f1 = f1
  f2 = f2
  s1 = s1
  s2 = s2
  NULL = NULL
  Buffers = {b1, b2, b3}
  Savers = {s1, s2}
  Files = {f1, f2}
  Inputs = {TRUE, FALSE}
  MaxUnits = 2
  MaxFrames = 4
SYMMETRY Symmetry
SPECIFICATION Spec
INVARIANTS
  PoolOK
  PostsNeverBlock
  DumpSemProtects
  FreedLast
  EofAfterEverything
PROPERTIES
  InOrderNoLoss
  BusyMeansBackedUp
