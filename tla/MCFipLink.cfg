CONSTANTS
  ArgLens = {0, 1, 65, 123}
  TrackCounts = {0, 1, 7, 8, 9}
  Plans <- LinkPlans
  Fills = {"zero", "header", "packet"}
  FirstType = 0
  NTypes = 149
  Chunks = {3, 6}
  HitValues = {0, 81, 172, 255}
  MaxHits = 1
  MaxHitLen = 8
SPECIFICATION LinkSpec
INVARIANT LinkTypeOK
INVARIANT HandledInOrder
INVARIANT HandledWasSent
INVARIANT SentIsHandled
CHECK_DEADLOCK FALSE
