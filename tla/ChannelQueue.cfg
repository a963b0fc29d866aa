SPECIFICATION FairSpec
CONSTANTS
  k1 = k1
  None = None
  Keys = {k1}
  Calls = {1, 2, 3, 4, 5}
  Requests <- MCWeighted
  MaxSize = 2
INVARIANTS
  NothingLostOrDoubled
  NobodySleepsInVain
PROPERTIES
  BatchContract
  ImplementsBoundedQueue
  ServedUnlessStarved
CHECK_DEADLOCK FALSE
