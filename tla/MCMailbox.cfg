\* 3 threads, 2 slots, 5 posts (the ring wraps twice).
CONSTANTS
  t1 = t1
  t2 = t2
  t3 = t3
  Threads = {t1, t2, t3}
  nMax = 2
  Classes = {1}
  MaxPosts = 5
SYMMETRY Symmetry
SPECIFICATION Spec
INVARIANTS
  MailboxOK
  ClaimsAreSound
  CountIsExact
PROPERTIES
  ImplementsChannel
